---- MODULE Spec2Model ----
(***************************************************************************)
(* Causal event engine of ultimate-minecraft: the sparse voxel world, the  *)
(* causal graph, the rule set (gravity, fluid spread/drain) and the        *)
(* sequential and parallel schedulers.                                     *)
(***************************************************************************)
EXTENDS Integers, Sequences, FiniteSets, TLC

\* ------------------------------------------------------------------------
\* Block ids (server/src/block.rs)
\* ------------------------------------------------------------------------
AIR == 0
STONE == 1
SAND == 118
WATER == 86
LAVA == 102
FluidLevels == 15
WaterMaxSpread == 7
LavaMaxSpread == 3
SECTION_SIZE == 16

\* FluidKind::level for water: Some(level) or None (modelled as -1).
water_level(id) == IF id >= WATER /\ id <= WATER + FluidLevels THEN id - WATER ELSE -1

lava_level(id) == IF id >= LAVA /\ id <= LAVA + FluidLevels THEN id - LAVA ELSE -1

is_fluid(id) == water_level(id) >= 0 \/ lava_level(id) >= 0

\* Variant: the source block, whatever the level asked for.
water_source_at(level) == WATER

water_at_level(level) == WATER + (IF level > FluidLevels THEN FluidLevels ELSE level)

\* FluidKind::level, at_level and max_spread, by the name of the kind.
FluidLevel(kind, id) == IF kind = "water" THEN water_level(id) ELSE lava_level(id)

FluidAt(kind, level) ==
    (IF kind = "water" THEN WATER ELSE LAVA)
       + (IF level > FluidLevels THEN FluidLevels ELSE level)

FluidMax(kind) == IF kind = "water" THEN WaterMaxSpread ELSE LavaMaxSpread

\* Variant: the limit of the other kind.
lava_max_spread == FluidMax("lava")

water_max_spread == FluidMax("water")

has_gravity(id) == id = SAND

is_replaceable(id) == id = AIR \/ is_fluid(id)

\* ------------------------------------------------------------------------
\* Positions (engine/src/world/position.rs).  A BlockPos is <<x, y, z>>.
\* ------------------------------------------------------------------------
Pos(x, y, z) == <<x, y, z>>

\* x >> 4 on a signed integer is the floor division by 16.
ChunkOf(pos) == <<pos[1] \div SECTION_SIZE, pos[3] \div SECTION_SIZE>>

\* y is an i64.  A y beyond the 32-bit integers of the checker is written
\* with a fourth component: <<x, y, z, k>> is the position
\* (x, y + k * 2^36, z), and <<x, y, z>> is the same as k = 0.
FarPos(x, y, z, k) == <<x, y, z, k>>

\* x & 0xF is the non-negative remainder; y is copied whole.
LocalOf(pos) ==
    IF Len(pos) = 4
    THEN <<pos[1] % SECTION_SIZE, pos[2], pos[3] % SECTION_SIZE, pos[4]>>
    ELSE <<pos[1] % SECTION_SIZE, pos[2], pos[3] % SECTION_SIZE>>

\* (y >> 4) as i32: the shift of y + k * 2^36 is (y >> 4) + k * 2^32, and
\* the cast to i32 keeps its low 32 bits, which are those of y >> 4.
section_index(lp) == lp[2] \div SECTION_SIZE

\* rem_euclid(16): k * 2^36 is a multiple of 16.
section_local_y(lp) == lp[2] % SECTION_SIZE

SectionIndex(x, y, z) == y * SECTION_SIZE * SECTION_SIZE + z * SECTION_SIZE + x

Above(pos) == Pos(pos[1], pos[2] + 1, pos[3])

Below(pos) == Pos(pos[1], pos[2] - 1, pos[3])

\* The six cardinal neighbors, in the order of BlockPos::neighbors.
pos_neighbors(pos) ==
    << Pos(pos[1] + 1, pos[2], pos[3]), Pos(pos[1] - 1, pos[2], pos[3]),
       Pos(pos[1], pos[2] + 1, pos[3]), Pos(pos[1], pos[2] - 1, pos[3]),
       Pos(pos[1], pos[2], pos[3] + 1), Pos(pos[1], pos[2], pos[3] - 1) >>

horizontal_neighbors(pos) ==
    << Pos(pos[1] + 1, pos[2], pos[3]), Pos(pos[1] - 1, pos[2], pos[3]),
       Pos(pos[1], pos[2], pos[3] + 1), Pos(pos[1], pos[2], pos[3] - 1) >>

\* ------------------------------------------------------------------------
\* Finite maps
\* ------------------------------------------------------------------------
Range(seq) == {seq[i] : i \in 1 .. Len(seq)}

EmptyMap == [k \in {} |-> 0]

MapPut(m, k, v) == [x \in DOMAIN m \cup {k} |-> IF x = k THEN v ELSE m[x]]

MapDel(m, k) == [x \in DOMAIN m \ {k} |-> m[x]]

\* ------------------------------------------------------------------------
\* Chunk (engine/src/world/chunk.rs).  A section is kept as the map from
\* the flat index of each non-AIR cell to its block: the 4096-cell array
\* with its AIR cells left out.  A chunk maps section index -> section.
\* ------------------------------------------------------------------------
SectionGet(sec, x, y, z) ==
    IF SectionIndex(x, y, z) \in DOMAIN sec THEN sec[SectionIndex(x, y, z)] ELSE AIR

SectionSet(sec, x, y, z, block) ==
    IF block = AIR THEN MapDel(sec, SectionIndex(x, y, z))
    ELSE MapPut(sec, SectionIndex(x, y, z), block)

SectionIsEmpty(sec) == DOMAIN sec = {}

ChunkNew == EmptyMap

ChunkGetBlock(chunk, lp) ==
    IF section_index(lp) \in DOMAIN chunk
    THEN SectionGet(chunk[section_index(lp)], lp[1], section_local_y(lp), lp[3])
    ELSE AIR

\* Variant: every write goes through entry(..).or_insert_with(new_empty).
ChunkSetAllocating(chunk, lp, block) ==
    LET idx == section_index(lp)
        old == IF idx \in DOMAIN chunk THEN chunk[idx] ELSE EmptyMap
    IN MapPut(chunk, idx, SectionSet(old, lp[1], section_local_y(lp), lp[3], block))

ChunkSetBlock(chunk, lp, block) ==
    LET idx == section_index(lp) IN
    IF block = AIR
    THEN IF idx \in DOMAIN chunk
         THEN LET sec == SectionSet(chunk[idx], lp[1], section_local_y(lp), lp[3], block) IN
              IF SectionIsEmpty(sec) THEN MapDel(chunk, idx) ELSE MapPut(chunk, idx, sec)
         ELSE chunk
    ELSE LET old == IF idx \in DOMAIN chunk THEN chunk[idx] ELSE EmptyMap IN
         MapPut(chunk, idx, SectionSet(old, lp[1], section_local_y(lp), lp[3], block))

\* ------------------------------------------------------------------------
\* World (engine/src/world/mod.rs): [chunks: ChunkPos -> Chunk, dirty: set]
\* ------------------------------------------------------------------------
WorldNew == [chunks |-> EmptyMap, dirty |-> {}]

get_block(w, pos) ==
    IF ChunkOf(pos) \in DOMAIN w.chunks
    THEN ChunkGetBlock(w.chunks[ChunkOf(pos)], LocalOf(pos))
    ELSE AIR

\* The chunk write of set_block: entry(chunk_pos).or_default().set_block(..)
WriteChunk(w, pos, block) ==
    LET cp == ChunkOf(pos)
        old == IF cp \in DOMAIN w.chunks THEN w.chunks[cp] ELSE ChunkNew
    IN [w EXCEPT !.chunks = MapPut(w.chunks, cp, ChunkSetBlock(old, LocalOf(pos), block))]

\* Variant: the dirty set remembers the last chunk only.
MarkLast(w, cp) == [w EXCEPT !.dirty = {cp}]

MarkDirty(w, cp) == [w EXCEPT !.dirty = w.dirty \cup {cp}]

set_block(w, pos, block) == MarkDirty(WriteChunk(w, pos, block), ChunkOf(pos))

insert_chunk(w, cp, chunk) == [w EXCEPT !.chunks = MapPut(w.chunks, cp, chunk)]

has_chunk(w, cp) == cp \in DOMAIN w.chunks

\* ------------------------------------------------------------------------
\* Events (engine/src/causal/event.rs).  An Event carries only its payload.
\* ------------------------------------------------------------------------
BlockSet(pos, old, new) == [kind |-> "BlockSet", pos |-> pos, old |-> old, new |-> new]

BlockNotify(pos) == [kind |-> "BlockNotify", pos |-> pos, old |-> AIR, new |-> AIR]

\* Variant: events keyed by their row instead of their chunk column.
EventRow(ev) == <<ev.pos[2], 0>>

EventChunk(ev) == ChunkOf(ev.pos)

\* ------------------------------------------------------------------------
\* Causal graph (engine/src/causal/graph.rs).  nodes is the slot map: no
\* node is ever removed, so the key of a node is its insertion index.
\* ------------------------------------------------------------------------
GraphNew == << >>

Ids(g) == 1 .. Len(g)

EventNode(event, parents) ==
    [event |-> event, parents |-> parents, children |-> << >>, executed |-> FALSE]

RECURSIVE LinkParents(_, _, _)
\* for &parent_id in &parents { if let Some(parent) = get_mut(..) { push(id) } }
LinkParents(g, parents, id) ==
    IF parents = << >> THEN g
    ELSE LET p == Head(parents)
             g1 == IF p \in Ids(g)
                   THEN [g EXCEPT ![p].children = Append(@, id)]
                   ELSE g
         IN LinkParents(g1, Tail(parents), id)

\* Variant: the slot of the newest node is used again.
insert_reusing(g, event, parents) ==
    IF g = << >> THEN <<EventNode(event, parents)>>
    ELSE [g EXCEPT ![Len(g)] = EventNode(event, parents)]

insert(g, event, parents) ==
    LinkParents(Append(g, EventNode(event, parents)), parents, Len(g) + 1)

insert_root(g, event) == insert(g, event, << >>)

\* Variant: a parent that is not in the graph counts as executed.
ParentsExecutedOrMissing(g, id) ==
    \A i \in 1 .. Len(g[id].parents) :
        g[id].parents[i] \in Ids(g) => g[g[id].parents[i]].executed

\* Variant: only nodes without parents are ever eligible.
ParentsNone(g, id) == g[id].parents = << >>

ParentsExecuted(g, id) ==
    \A i \in 1 .. Len(g[id].parents) :
        g[id].parents[i] \in Ids(g) /\ g[g[id].parents[i]].executed

\* Variant: the frontier forgets the parents.
OnFrontierIgnoringParents(g, id) == ~g[id].executed

\* Variant: the frontier forgets the executed flag.
OnFrontierExecutedToo(g, id) == ParentsExecuted(g, id)

OnFrontier(g, id) == ~g[id].executed /\ ParentsExecuted(g, id)

\* Variant: the ids that pass the filter, youngest first.
frontier_youngest_first(g) ==
    LET keep(id) == OnFrontier(g, id)
        f == SelectSeq([id \in 1 .. Len(g) |-> id], keep)
    IN [i \in 1 .. Len(f) |-> f[Len(f) + 1 - i]]

\* frontier(): the slot map iterates in slot order, which is insertion
\* order; the ids that pass the filter are collected in that order.
frontier(g) ==
    LET keep(id) == OnFrontier(g, id)
    IN SelectSeq([id \in 1 .. Len(g) |-> id], keep)

\* Variant: the flag is flipped instead of set.
mark_flipped(g, id) ==
    IF id \in Ids(g) THEN [g EXCEPT ![id].executed = ~@] ELSE g

mark_executed(g, id) ==
    IF id \in Ids(g) THEN [g EXCEPT ![id].executed = TRUE] ELSE g

\* get(): the node, or None for an id that is not in the graph.
get(g, id) == IF id \in Ids(g) THEN g[id] ELSE "None"

executed_count(g) == Cardinality({id \in Ids(g) : g[id].executed})

RECURSIVE InsertAllRoots(_, _, _)
\* Variant: the consequents are inserted as roots.
InsertAllRoots(g, events, id) ==
    IF events = << >> THEN g
    ELSE InsertAllRoots(insert_root(g, Head(events)), Tail(events), id)

RECURSIVE InsertAll(_, _, _)
\* for new_event in consequents { graph.insert(new_event, vec![id]); }
InsertAll(g, events, id) ==
    IF events = << >> THEN g
    ELSE InsertAll(insert(g, Head(events), <<id>>), Tail(events), id)

\* ------------------------------------------------------------------------
\* Rules (server/src/rules/block_updates.rs, engine/src/rules/mod.rs)
\* ------------------------------------------------------------------------
\* Variant: the block is copied into the cell below and never removed.
gravity_copying(w, payload) ==
    LET pos == payload.pos
        block_id == get_block(w, pos)
        below_id == get_block(w, Pos(pos[1], pos[2] - 1, pos[3]))
    IN IF block_id = SAND /\ (below_id = AIR \/ below_id \in 86 .. 117)
       THEN << [kind |-> "BlockSet", pos |-> Pos(pos[1], pos[2] - 1, pos[3]),
                old |-> below_id, new |-> block_id],
               [kind |-> "BlockNotify", pos |-> Pos(pos[1], pos[2] - 1, pos[3]),
                old |-> AIR, new |-> AIR] >>
       ELSE << >>

\* Variant: the second notify goes to the cell under the landing cell.
gravity_notifying_under(w, payload) ==
    LET pos == payload.pos
        block_id == get_block(w, pos)
        below == Below(pos)
        below_id == get_block(w, below)
    IN IF ~has_gravity(block_id) THEN << >>
       ELSE IF is_replaceable(below_id)
       THEN << BlockSet(pos, block_id, below_id),
               BlockSet(below, below_id, block_id),
               BlockNotify(Below(below)),
               BlockNotify(Above(pos)) >>
       ELSE << >>

gravity(w, payload) ==
    LET pos == payload.pos
        block_id == get_block(w, pos)
        below == Below(pos)
        below_id == get_block(w, below)
    IN IF ~has_gravity(block_id) THEN << >>
       ELSE IF is_replaceable(below_id)
       THEN << BlockSet(pos, block_id, below_id),
               BlockSet(below, below_id, block_id),
               BlockNotify(below),
               BlockNotify(Above(pos)) >>
       ELSE << >>

has_water_support(w, pos, level) ==
    \/ is_fluid(get_block(w, Above(pos)))
    \/ \E i \in 1 .. 4 :
          LET n_level == water_level(get_block(w, horizontal_neighbors(pos)[i]))
          IN n_level >= 0 /\ n_level < level

RECURSIVE SpreadTo(_, _, _)
SpreadTo(w, neighbors, next_water) ==
    IF neighbors = << >> THEN << >>
    ELSE (IF get_block(w, Head(neighbors)) = AIR
          THEN << BlockSet(Head(neighbors), AIR, next_water) >>
          ELSE << >>) \o SpreadTo(w, Tail(neighbors), next_water)

\* Variant: the drainage check applies to sources too.
fluid_spread_draining(w, payload) ==
    LET is_notify == payload.kind = "BlockNotify"
        triggers == IF is_notify THEN is_fluid(get_block(w, payload.pos))
                    ELSE is_fluid(payload.new)
        pos == payload.pos
        block_id == get_block(w, pos)
        level == water_level(block_id)
        below == Below(pos)
        below_id == get_block(w, below)
        nb == horizontal_neighbors(pos)
    IN IF ~triggers THEN << >>
       ELSE IF level < 0 THEN << >>
       ELSE IF is_notify /\ ~has_water_support(w, pos, level)
       THEN << BlockSet(pos, block_id, AIR),
               BlockNotify(nb[1]), BlockNotify(nb[2]),
               BlockNotify(nb[3]), BlockNotify(nb[4]) >>
       ELSE IF below_id = AIR
       THEN << BlockSet(below, below_id, water_at_level(1)) >>
       ELSE IF level >= water_max_spread THEN << >>
       ELSE SpreadTo(w, nb, water_at_level(level + 1))

fluid_spread(w, payload) ==
    LET is_notify == payload.kind = "BlockNotify"
        triggers == IF is_notify THEN is_fluid(get_block(w, payload.pos))
                    ELSE is_fluid(payload.new)
        pos == payload.pos
        block_id == get_block(w, pos)
        level == water_level(block_id)
        below == Below(pos)
        below_id == get_block(w, below)
        nb == horizontal_neighbors(pos)
    IN IF ~triggers THEN << >>
       ELSE IF level < 0 THEN << >>
       ELSE IF level > 0 /\ is_notify /\ ~has_water_support(w, pos, level)
       THEN << BlockSet(pos, block_id, AIR),
               BlockNotify(nb[1]), BlockNotify(nb[2]),
               BlockNotify(nb[3]), BlockNotify(nb[4]) >>
       ELSE IF below_id = AIR
       THEN << BlockSet(below, below_id, water_at_level(1)) >>
       ELSE IF level >= water_max_spread THEN << >>
       ELSE SpreadTo(w, nb, water_at_level(level + 1))

\* The fluid rule of one kind (water_spread, lava_spread), which
\* rules::standard() registers and block_updates.rs does not define: after
\* the rule behaviour of the generic fluid, with the drainage check ahead
\* of fall and spread as in fluid_spread.
has_support(kind, w, pos, level) ==
    \/ FluidLevel(kind, get_block(w, Above(pos))) >= 0
    \/ \E i \in 1 .. 4 :
          LET n_level == FluidLevel(kind, get_block(w, horizontal_neighbors(pos)[i]))
          IN n_level >= 0 /\ n_level < level

notify_neighbors(pos) == [i \in 1 .. 6 |-> BlockNotify(pos_neighbors(pos)[i])]

fluid_rule(kind, w, payload) ==
    LET is_notify == payload.kind = "BlockNotify"
        pos == payload.pos
        block_id == get_block(w, pos)
        level == FluidLevel(kind, block_id)
        below_id == get_block(w, Below(pos))
        nb == horizontal_neighbors(pos)
    IN IF ~is_notify /\ FluidLevel(kind, payload.old) >= 0
                     /\ FluidLevel(kind, payload.new) < 0
       THEN notify_neighbors(pos)
       ELSE IF ~is_notify /\ FluidLevel(kind, payload.new) < 0 THEN << >>
       ELSE IF level < 0 THEN << >>
       ELSE IF level > 0 /\ is_notify /\ ~has_support(kind, w, pos, level)
       THEN << BlockSet(pos, block_id, AIR),
               BlockNotify(nb[1]), BlockNotify(nb[2]),
               BlockNotify(nb[3]), BlockNotify(nb[4]) >>
       ELSE IF below_id = AIR
       THEN << BlockSet(Below(pos), below_id, FluidAt(kind, 1)) >>
       ELSE IF level >= FluidMax(kind) THEN << >>
       ELSE SpreadTo(w, nb, FluidAt(kind, level + 1))

water_spread(w, payload) == fluid_rule("water", w, payload)

lava_spread(w, payload) == fluid_rule("lava", w, payload)

\* RuleSet::evaluate for the standard rule set: each rule in registration
\* order, outputs concatenated.
\* A rule a caller may add: it answers every event with one more event.
echo(w, payload) == <<BlockNotify(payload.pos)>>

\* RuleFn: the rules are named, since a rule set is a list of functions.
RuleFn(name, w, payload) ==
    CASE name = "gravity" -> gravity(w, payload)
      [] name = "fluid_spread" -> fluid_spread(w, payload)
      [] name = "echo" -> echo(w, payload)
      [] name = "water_spread" -> water_spread(w, payload)
      [] name = "lava_spread" -> lava_spread(w, payload)

\* rules::standard(), with the rules block_updates.rs defines.
StandardRules == <<"gravity", "fluid_spread">>

\* The rules block_updates.rs defines, and the lava rule it lacks.
LavaRules == <<"gravity", "fluid_spread", "lava_spread">>

\* A rule set that is productive forever.
EchoRules == <<"gravity", "fluid_spread", "echo">>

VARIABLE rules           \* the RuleSet handed to the scheduler

RECURSIVE EvaluateFrom(_, _, _)
EvaluateFrom(rs, w, payload) ==
    IF rs = << >> THEN << >>
    ELSE RuleFn(Head(rs), w, payload) \o EvaluateFrom(Tail(rs), w, payload)

evaluate(w, payload) == EvaluateFrom(rules, w, payload)

\* ------------------------------------------------------------------------
\* Scheduler (engine/src/causal/scheduler.rs)
\* ------------------------------------------------------------------------
\* Variant: a BlockSet whose `new` is already in place puts `old` back.
apply_swapping(w, payload) ==
    IF payload.kind = "BlockSet"
    THEN set_block(w, payload.pos,
                   IF get_block(w, payload.pos) = payload.new
                   THEN payload.old ELSE payload.new)
    ELSE w

\* Variant: a BlockSet is written only where the block in place is its `old`.
apply_if_old(w, payload) ==
    IF payload.kind = "BlockSet" /\ get_block(w, payload.pos) = payload.old
    THEN set_block(w, payload.pos, payload.new)
    ELSE w

apply_event(w, payload) ==
    IF payload.kind = "BlockSet" THEN set_block(w, payload.pos, payload.new) ELSE w

\* One iteration of the for-loop of step, for an id present in the graph:
\* apply, mark executed, evaluate the rules, insert the consequents.
StepBody(w, g, id) ==
    LET event == g[id].event
        w1 == apply_event(w, event)
        g1 == mark_executed(g, id)
    IN [world |-> w1, graph |-> InsertAll(g1, evaluate(w1, event), id)]

RECURSIVE StepLoop(_, _, _, _, _)
StepLoop(w, g, front, executed, maxEvents) ==
    IF front = << >> \/ executed >= maxEvents
    THEN [world |-> w, graph |-> g, executed |-> executed]
    ELSE IF Head(front) \notin Ids(g)
    THEN StepLoop(w, g, Tail(front), executed, maxEvents)
    ELSE LET r == StepBody(w, g, Head(front))
         IN StepLoop(r.world, r.graph, Tail(front), executed + 1, maxEvents)

step(w, g, maxEvents) == StepLoop(w, g, frontier(g), 0, maxEvents)

RECURSIVE RunLoop(_, _, _, _, _)
RunLoop(w, g, maxEvents, steps_left, total) ==
    IF steps_left = 0 THEN [world |-> w, graph |-> g, total |-> total]
    ELSE LET r == step(w, g, maxEvents)
         IN IF r.executed = 0 THEN [world |-> r.world, graph |-> r.graph, total |-> total]
            ELSE RunLoop(r.world, r.graph, maxEvents, steps_left - 1, total + r.executed)

run_until_quiet(w, g, maxEvents, max_steps) == RunLoop(w, g, maxEvents, max_steps, 0)

\* One result of a parallel task: (id, consequents).
TaskResult(w, g, id) == [id |-> id, consequents |-> evaluate(w, g[id].event)]

Min(a, b) == IF a < b THEN a ELSE b

\* Variant: the batch is not trimmed.
TakeAll(seq, n) == seq

\* .take(max_events_per_step) over the frontier
Take(seq, n) == SubSeq(seq, 1, Min(n, Len(seq)))

\* The events of one chunk group, in frontier order (HashMap entry .push).
GroupOf(g, events, chunk) ==
    SelectSeq(events, LAMBDA id : EventChunk(g[id].event) = chunk)

GroupKeys(g, events) == {EventChunk(g[events[i]].event) : i \in 1 .. Len(events)}

\* Every order in which HashMap::into_values may hand out the groups.
GroupOrders(g, events) ==
    LET keys == GroupKeys(g, events)
        n == Cardinality(keys)
    IN {[i \in 1 .. n |-> GroupOf(g, events, f[i])] :
          f \in {h \in [1 .. n -> keys] : \A i, j \in 1 .. n : i # j => h[i] # h[j]}}

RECURSIVE Flatten(_)
Flatten(seqs) == IF seqs = << >> THEN << >> ELSE Head(seqs) \o Flatten(Tail(seqs))

\* ------------------------------------------------------------------------
\* The positions one rule evaluation reads, along the path the code takes.
\* ------------------------------------------------------------------------
GravityReads(w, payload) ==
    IF has_gravity(get_block(w, payload.pos))
    THEN {payload.pos, Below(payload.pos)}
    ELSE {payload.pos}

SupportReads(w, pos, level) ==
    IF is_fluid(get_block(w, Above(pos))) THEN {Above(pos)}
    ELSE LET nb == horizontal_neighbors(pos)
             Supports(i) == LET l == water_level(get_block(w, nb[i]))
                            IN l >= 0 /\ l < level
         IN {Above(pos)} \cup
            {nb[i] : i \in {j \in 1 .. 4 : \A k \in 1 .. j - 1 : ~Supports(k)}}

FluidReads(w, payload) ==
    LET is_notify == payload.kind = "BlockNotify"
        pos == payload.pos
        level == water_level(get_block(w, pos))
        nb == horizontal_neighbors(pos)
    IN IF is_notify /\ ~is_fluid(get_block(w, pos)) THEN {pos}
       ELSE IF ~is_notify /\ ~is_fluid(payload.new) THEN {}
       ELSE IF level < 0 THEN {pos}
       ELSE LET sup == IF level > 0 /\ is_notify THEN SupportReads(w, pos, level) ELSE {}
            IN IF level > 0 /\ is_notify /\ ~has_water_support(w, pos, level)
               THEN {pos} \cup sup
               ELSE IF get_block(w, Below(pos)) = AIR THEN {pos, Below(pos)} \cup sup
               ELSE IF level >= WaterMaxSpread THEN {pos, Below(pos)} \cup sup
               ELSE {pos, Below(pos)} \cup sup \cup {nb[i] : i \in 1 .. 4}

EvaluateReads(w, payload) == GravityReads(w, payload) \cup FluidReads(w, payload)

\* ------------------------------------------------------------------------
\* Bounds and the worlds the model starts from
\* ------------------------------------------------------------------------
MaxY == 2
MaxNodes == 3
MaxSteps == 8
MaxGraph == 10
DefaultMaxEvents == 10000

\* Two columns on either side of the border between chunk 0 and chunk 1.
Xs == {15, 16}

InteriorCells == {Pos(x, y, 0) : x \in Xs, y \in 1 .. MaxY}

Cells == {Pos(x, y, z) : x \in 14 .. 17, y \in 0 .. MaxY, z \in -1 .. 1}

WallCells == Cells \ InteriorCells

RECURSIVE Fill(_, _, _)
\* Chunk::set_block on chunks that are then handed to insert_chunk: the
\* world is populated without marking anything dirty.
Fill(w, cells, block) ==
    IF cells = {} THEN w
    ELSE LET c == CHOOSE c \in cells : TRUE
         IN Fill(WriteChunk(w, c, block), cells \ {c}, block)

\* A pit with a stone floor and stone walls around the interior cells.
PitWorld == Fill(WorldNew, WallCells, STONE)

\* The events a caller injects: a water source in the last column of chunk 0
\* and sand in the first column of chunk 1, both in the top row; and one
\* notify a caller attaches to parents of its choice.  Each is injected at
\* most once.
RootEvents ==
    {BlockSet(Pos(15, MaxY, 0), AIR, WATER), BlockSet(Pos(16, MaxY, 0), AIR, SAND)}

SandRoot == {BlockSet(Pos(16, MaxY, 0), AIR, SAND)}

ChildEvents == {BlockNotify(Pos(16, MaxY, 0)), BlockNotify(Pos(15, MaxY, 0))}

\* The null key of the slot map: an EventId that is in no graph.
NullId == 0

MaxEventsChoices == {0, 2, DefaultMaxEvents}

SameBlocks(w1, w2) == \A p \in Cells : get_block(w1, p) = get_block(w2, p)

Threads == {1, 2}

\* No thread is inside set_block or take_dirty_chunks.
ConcInit ==
    [setPc |-> [t \in Threads |-> "idle"],
     setPos |-> [t \in Threads |-> Pos(0, 0, 0)],
     covered |-> [t \in Threads |-> FALSE],
     takePc |-> "idle",
     toVisit |-> {},
     collected |-> << >>,
     removeQ |-> << >>,
     unsaved |-> {}]

\* No World call has been made: nothing written, nothing targeted since
\* the last take_dirty_chunks, no call has returned.
CallsInit ==
    [written |-> EmptyMap, targeted |-> {}, taken |-> {}, last |-> "none",
     arg |-> << >>, prev |-> AIR, out |-> << >>]

\* The connections the listener accepts, by conn_id (NEXT_CONN_ID counts
\* from 1).
MaxConns == 2

Conns == 1 .. MaxConns

\* Chunk streaming of one connection (connection.rs).  A chunk coordinate
\* is <<cx, cz>>.
view_distance == 4

IMMEDIATE_RADIUS == 2

CHUNKS_PER_ITER == 5

\* The chunk columns the player walks through, along x.
MaxChunk == 4

\* (spawn_x as i32) >> 4 with spawn_x = spawn_z = 8.0
SpawnChunk == <<0, 0>>

\* for cx in (c.x - r)..=(c.x + r) { for cz in (c.z - r)..=(c.z + r) {..} }
Square(c, r) == {<<cx, cz>> : cx \in c[1] - r .. c[1] + r, cz \in c[2] - r .. c[2] + r}

\* dx.max(dz)
Chebyshev(a, b) ==
    LET dx == IF a[1] >= b[1] THEN a[1] - b[1] ELSE b[1] - a[1]
        dz == IF a[2] >= b[2] THEN a[2] - b[2] ELSE b[2] - a[2]
    IN IF dx >= dz THEN dx ELSE dz

\* handle_play as it enters its main loop: the 9 x 9 square around the spawn
\* chunk has been sent, the queue is empty, and update_loaded_chunks has
\* sent no SetChunkCacheCenter yet.
StreamInit ==
    [at |-> "drain",
     center |-> SpawnChunk,
     loaded_chunks |-> Square(SpawnChunk, view_distance),
     chunk_send_queue |-> << >>,
     client |-> Square(SpawnChunk, view_distance),
     centered |-> FALSE,
     had |-> {}]

\* No connection has reached its play phase; the registry is empty and
\* nothing has been broadcast.
NetInit ==
    [players |-> {},
     events |-> << >>,
     conn |-> [c \in Conns |-> "config"],
     result |-> [c \in Conns |-> "none"],
     registered |-> [c \in Conns |-> FALSE],
     rx |-> [c \in Conns |-> 1],
     stream |-> StreamInit]

VARIABLES
    world,               \* the World shared by all calls
    graph,               \* CausalGraph.nodes
    max_events_per_step, \* Scheduler.max_events_per_step
    callerIds,           \* the EventIds insert returned to the caller
    pc,                  \* the scheduler call in progress
    front,               \* step: the rest of `frontier` in the for-loop
    executed,            \* step / step_parallel: local `executed`
    groups,              \* step_parallel: `groups`
    taskIdx,             \* step_parallel: next event of each group's task
    taskPhase,           \* step_parallel: "apply" or "eval" for that event
    results,             \* step_parallel: each task's collected results
    gatherQ,             \* step_parallel: results not yet spliced
    runKind,             \* run_until_quiet(_parallel) in progress, or "none"
    stepsLeft,           \* run_until_quiet: iterations left of 0..max_steps
    total,               \* run_until_quiet: local `total`
    front0,              \* history: the frontier when the step began
    count0,              \* history: executed_count when the step began
    log,                 \* history: ids executed by the current step
    ret,                 \* history: value returned by the last step, or -1
    runRet,              \* history: value returned by the last run, or -1
    runMax,              \* history: max_steps of the last run
    lastCall,            \* history: the last call that returned
    world0,              \* history: the world when the last run began
    graph0,              \* history: the graph when the last run began
    reads,               \* history: <<group, pos>> read in this wave
    writes,              \* history: <<group, pos>> written in this wave
    conc,                \* threads calling set_block / take_dirty_chunks
    calls,               \* history: the World calls made by one caller
    net                  \* the server's connections, player registry and chunk streams

vars == << world, graph, max_events_per_step, callerIds, pc, front, executed,
           groups, taskIdx, taskPhase, results, gatherQ, runKind, stepsLeft,
           total, front0, count0, log, ret, runRet, runMax, lastCall, world0,
           graph0, reads, writes, conc, rules, calls, net >>

schedLocals == << front, executed, groups, taskIdx, taskPhase, results, gatherQ >>

runLocals == << runKind, stepsLeft, total >>

schedHistory == << front0, count0, log, ret, runRet, runMax, lastCall, world0,
                   graph0, reads, writes >>

history == << schedHistory, calls >>

InitRules(worlds, budgets, ruleSets) ==
    /\ world \in worlds
    /\ graph = GraphNew
    /\ max_events_per_step \in budgets
    /\ callerIds = << >>
    /\ pc = "idle"
    /\ front = << >>
    /\ executed = 0
    /\ groups = << >>
    /\ taskIdx = << >>
    /\ taskPhase = << >>
    /\ results = << >>
    /\ gatherQ = << >>
    /\ runKind = "none"
    /\ stepsLeft = 0
    /\ total = 0
    /\ front0 = << >>
    /\ count0 = 0
    /\ log = << >>
    /\ ret = -1
    /\ runRet = -1
    /\ runMax = 0
    /\ lastCall = "none"
    /\ world0 = world
    /\ graph0 = graph
    /\ reads = {}
    /\ writes = {}
    /\ conc = ConcInit
    /\ calls = CallsInit
    /\ net = NetInit
    /\ rules \in ruleSets

InitWith(worlds, budgets) == InitRules(worlds, budgets, {StandardRules})

Init == InitWith({PitWorld}, MaxEventsChoices)

Idle == pc = "idle" /\ runKind = "none"

\* ------------------------------------------------------------------------
\* The caller's graph operations
\* ------------------------------------------------------------------------
\* Parent lists a caller can pass: ids it was handed or the null key; one
\* or two of them, duplicates included.
ParentLists ==
    LET known == {callerIds[i] : i \in 1 .. Len(callerIds)} \cup {NullId}
    IN {<<p>> : p \in known} \cup {pq \in known \X known : pq[1] <= pq[2]}

Injected(e) == \E i \in 1 .. Len(callerIds) : graph[callerIds[i]].event = e

InsertRoot(e) ==
    /\ Idle
    /\ graph' = insert_root(graph, e)
    /\ callerIds' = Append(callerIds, Len(graph) + 1)
    /\ lastCall' = "insert"
    /\ UNCHANGED << world, max_events_per_step, pc, schedLocals, runLocals, front0,
                    count0, log, ret, runRet, runMax, world0, graph0, reads, writes, conc, rules, calls, net >>

Insert(e, parents) ==
    /\ Idle
    /\ graph' = insert(graph, e, parents)
    /\ callerIds' = Append(callerIds, Len(graph) + 1)
    /\ lastCall' = "insert"
    /\ UNCHANGED << world, max_events_per_step, pc, schedLocals, runLocals, front0,
                    count0, log, ret, runRet, runMax, world0, graph0, reads, writes, conc, rules, calls, net >>

MarkExecuted(id) ==
    /\ Idle
    /\ graph' = mark_executed(graph, id)
    /\ lastCall' = "mark_executed"
    /\ UNCHANGED << world, max_events_per_step, callerIds, pc, schedLocals, runLocals,
                    front0, count0, log, ret, runRet, runMax, world0, graph0, reads,
                    writes, conc, rules, calls, net >>

\* ------------------------------------------------------------------------
\* Scheduler::step, one action per part of its body
\* ------------------------------------------------------------------------
\* What a returning step hands to its caller: to the program (no run in
\* progress) or to the loop of run_until_quiet / run_until_quiet_parallel.
\* Variant: the count of the last step replaces the sum.
LastOnly(sum, n) == n

\* total += n
AddTotal(sum, n) == sum + n

StepReturn(n, stepName, runName) ==
    /\ ret' = n
    /\ pc' = "idle"
    /\ IF runKind = "none"
       THEN /\ lastCall' = stepName
            /\ UNCHANGED << runKind, stepsLeft, total, runRet >>
       ELSE IF n = 0 \/ stepsLeft = 1
       THEN /\ runKind' = "none"
            /\ stepsLeft' = 0
            /\ total' = 0
            /\ runRet' = AddTotal(total, n)
            /\ lastCall' = runName
       ELSE /\ stepsLeft' = stepsLeft - 1
            /\ total' = AddTotal(total, n)
            /\ UNCHANGED << runKind, runRet, lastCall >>

\* Variant: a work list, recomputed after every event.
RecomputedFrontier(rest, g) == frontier(g)

\* The for-loop of step walks the frontier computed when the call began.
RestOfFrontier(rest, g) == Tail(rest)

StepBegin ==
    /\ pc = "idle"
    /\ runKind \in {"none", "seq"}
    /\ front' = frontier(graph)
    /\ executed' = 0
    /\ pc' = "step"
    /\ front0' = frontier(graph)
    /\ count0' = executed_count(graph)
    /\ log' = << >>
    /\ ret' = -1
    /\ reads' = {}
    /\ writes' = {}
    /\ UNCHANGED << world, graph, max_events_per_step, callerIds, groups, taskIdx,
                    taskPhase, results, gatherQ, runLocals, runRet, runMax, lastCall,
                    world0, graph0, conc, rules, calls, net >>

StepIter ==
    /\ pc = "step"
    /\ front # << >>
    /\ executed < max_events_per_step
    /\ IF Head(front) \notin Ids(graph)
       THEN /\ front' = Tail(front)
            /\ UNCHANGED << world, graph, executed, log >>
       ELSE LET r == StepBody(world, graph, Head(front))
            IN /\ world' = r.world
               /\ graph' = r.graph
               /\ executed' = executed + 1
               /\ log' = Append(log, Head(front))
               /\ front' = RestOfFrontier(front, r.graph)
    /\ UNCHANGED << max_events_per_step, callerIds, pc, groups, taskIdx, taskPhase,
                    results, gatherQ, runLocals, front0, count0, ret, runRet, runMax,
                    lastCall, world0, graph0, reads, writes, conc, rules, calls, net >>

StepEnd ==
    /\ pc = "step"
    /\ front = << >> \/ executed >= max_events_per_step
    /\ StepReturn(executed, "step", "run_until_quiet")
    /\ front' = << >>
    /\ executed' = 0
    /\ UNCHANGED << world, graph, max_events_per_step, callerIds, groups, taskIdx,
                    taskPhase, results, gatherQ, front0, count0, log, runMax, world0,
                    graph0, reads, writes, conc, rules, calls, net >>

\* ------------------------------------------------------------------------
\* Scheduler::step_parallel: scatter (one task per group), then gather
\* ------------------------------------------------------------------------
ParBegin ==
    /\ pc = "idle"
    /\ runKind \in {"none", "par"}
    /\ front0' = frontier(graph)
    /\ count0' = executed_count(graph)
    /\ log' = << >>
    /\ ret' = -1
    /\ reads' = {}
    /\ writes' = {}
    /\ executed' = 0
    /\ IF frontier(graph) = << >>
       THEN /\ pc' = "gather"
            /\ UNCHANGED << groups, taskIdx, taskPhase, results >>
       ELSE /\ pc' = "scatter"
            /\ \E gs \in GroupOrders(graph, Take(frontier(graph), max_events_per_step)) :
                 /\ groups' = gs
                 /\ taskIdx' = [i \in 1 .. Len(gs) |-> 1]
                 /\ taskPhase' = [i \in 1 .. Len(gs) |-> "apply"]
                 /\ results' = [i \in 1 .. Len(gs) |-> << >>]
    /\ UNCHANGED << world, graph, max_events_per_step, callerIds, front, gatherQ,
                    runLocals, runRet, runMax, lastCall, world0, graph0, conc, rules, calls, net >>

TaskEvent(i) == graph[groups[i][taskIdx[i]]].event

\* Task i applies its next event to the shared world.
ParApply(i) ==
    /\ pc = "scatter"
    /\ taskIdx[i] <= Len(groups[i])
    /\ taskPhase[i] = "apply"
    /\ world' = apply_event(world, TaskEvent(i))
    /\ writes' = IF TaskEvent(i).kind = "BlockSet"
                 THEN writes \cup {<<i, TaskEvent(i).pos>>}
                 ELSE writes
    /\ taskPhase' = [taskPhase EXCEPT ![i] = "eval"]
    /\ UNCHANGED << graph, max_events_per_step, callerIds, pc, front, executed, groups,
                    taskIdx, results, gatherQ, runLocals, front0, count0, log, ret,
                    runRet, runMax, lastCall, world0, graph0, reads, conc, rules, calls, net >>

\* Variant: the task splices its result into the graph itself.
ParEvalSplicing(i) ==
    /\ pc = "scatter"
    /\ taskIdx[i] <= Len(groups[i])
    /\ taskPhase[i] = "eval"
    /\ graph' = InsertAll(mark_executed(graph, groups[i][taskIdx[i]]),
                          evaluate(world, TaskEvent(i)), groups[i][taskIdx[i]])
    /\ results' = [results EXCEPT
                     ![i] = Append(@, [id |-> groups[i][taskIdx[i]], consequents |-> << >>])]
    /\ reads' = reads \cup {<<i, p>> : p \in EvaluateReads(world, TaskEvent(i))}
    /\ taskIdx' = [taskIdx EXCEPT ![i] = @ + 1]
    /\ taskPhase' = [taskPhase EXCEPT ![i] = "apply"]
    /\ UNCHANGED << world, max_events_per_step, callerIds, pc, front, executed,
                    groups, gatherQ, runLocals, front0, count0, log, ret, runRet,
                    runMax, lastCall, world0, graph0, writes, conc, rules, calls, net >>

\* Task i evaluates the rules for the event it has just applied.
ParEval(i) ==
    /\ pc = "scatter"
    /\ taskIdx[i] <= Len(groups[i])
    /\ taskPhase[i] = "eval"
    /\ results' = [results EXCEPT
                     ![i] = Append(@, TaskResult(world, graph, groups[i][taskIdx[i]]))]
    /\ reads' = reads \cup {<<i, p>> : p \in EvaluateReads(world, TaskEvent(i))}
    /\ taskIdx' = [taskIdx EXCEPT ![i] = @ + 1]
    /\ taskPhase' = [taskPhase EXCEPT ![i] = "apply"]
    /\ UNCHANGED << world, graph, max_events_per_step, callerIds, pc, front, executed,
                    groups, gatherQ, runLocals, front0, count0, log, ret, runRet,
                    runMax, lastCall, world0, graph0, writes, conc, rules, calls, net >>

\* .collect(): every task has finished; the results are in group order.
ParJoin ==
    /\ pc = "scatter"
    /\ \A i \in 1 .. Len(groups) : taskIdx[i] > Len(groups[i])
    /\ gatherQ' = Flatten(results)
    /\ pc' = "gather"
    /\ groups' = << >>
    /\ taskIdx' = << >>
    /\ taskPhase' = << >>
    /\ results' = << >>
    /\ UNCHANGED << world, graph, max_events_per_step, callerIds, front, executed,
                    runLocals, history, conc, rules, calls, net >>

ParGatherIter ==
    /\ pc = "gather"
    /\ gatherQ # << >>
    /\ graph' = InsertAll(mark_executed(graph, Head(gatherQ).id),
                          Head(gatherQ).consequents, Head(gatherQ).id)
    /\ executed' = executed + 1
    /\ log' = Append(log, Head(gatherQ).id)
    /\ gatherQ' = Tail(gatherQ)
    /\ UNCHANGED << world, max_events_per_step, callerIds, pc, front, groups, taskIdx,
                    taskPhase, results, runLocals, front0, count0, ret, runRet, runMax,
                    lastCall, world0, graph0, reads, writes, conc, rules, calls, net >>

ParEnd ==
    /\ pc = "gather"
    /\ gatherQ = << >>
    /\ StepReturn(executed, "step_parallel", "run_until_quiet_parallel")
    /\ executed' = 0
    /\ UNCHANGED << world, graph, max_events_per_step, callerIds, front, groups,
                    taskIdx, taskPhase, results, gatherQ, front0, count0, log, runMax,
                    world0, graph0, reads, writes, conc, rules, calls, net >>

\* ------------------------------------------------------------------------
\* run_until_quiet / run_until_quiet_parallel: for _ in 0..max_steps
\* ------------------------------------------------------------------------
RunBegin(kind, max_steps) ==
    /\ Idle
    /\ runMax' = max_steps
    /\ world0' = world
    /\ graph0' = graph
    /\ IF max_steps = 0
       THEN /\ runRet' = 0
            /\ lastCall' = IF kind = "seq" THEN "run_until_quiet"
                           ELSE "run_until_quiet_parallel"
            /\ UNCHANGED runLocals
       ELSE /\ runKind' = kind
            /\ stepsLeft' = max_steps
            /\ total' = 0
            /\ runRet' = -1
            /\ UNCHANGED lastCall
    /\ UNCHANGED << world, graph, max_events_per_step, callerIds, pc, schedLocals,
                    front0, count0, log, ret, reads, writes, conc, rules, calls, net >>

\* step and step_parallel, called in any order on a graph the caller adds
\* roots to.
Next ==
    \/ \E e \in RootEvents : ~Injected(e) /\ InsertRoot(e)
    \/ StepBegin
    \/ StepIter
    \/ StepEnd
    \/ ParBegin
    \/ \E i \in 1 .. Len(groups) : ParApply(i)
    \/ \E i \in 1 .. Len(groups) : ParEval(i)
    \/ ParJoin
    \/ ParGatherIter
    \/ ParEnd

Spec == Init /\ [][Next]_vars

\* step and step_parallel on a graph to which the caller adds a root and a
\* node with parents of its choice.
NextCausal ==
    \/ \E e \in SandRoot : ~Injected(e) /\ InsertRoot(e)
    \/ \E e \in ChildEvents : \E ps \in ParentLists : ~Injected(e) /\ Insert(e, ps)
    \/ StepBegin
    \/ StepIter
    \/ StepEnd
    \/ ParBegin
    \/ \E i \in 1 .. Len(groups) : ParApply(i)
    \/ \E i \in 1 .. Len(groups) : ParEval(i)
    \/ ParJoin
    \/ ParGatherIter
    \/ ParEnd

SpecCausal == Init /\ [][NextCausal]_vars

\* run_until_quiet and step on a graph the caller adds roots to.
NextRun ==
    \/ \E e \in RootEvents : ~Injected(e) /\ InsertRoot(e)
    \/ StepBegin
    \/ StepIter
    \/ StepEnd
    \/ \E ms \in {0, 1, MaxSteps} : RunBegin("seq", ms)

SpecRun == Init /\ [][NextRun]_vars

\* run_until_quiet_parallel on a graph the caller adds roots to.
NextRunPar ==
    \/ \E e \in RootEvents : ~Injected(e) /\ InsertRoot(e)
    \/ ParBegin
    \/ \E i \in 1 .. Len(groups) : ParApply(i)
    \/ \E i \in 1 .. Len(groups) : ParEval(i)
    \/ ParJoin
    \/ ParGatherIter
    \/ ParEnd
    \/ RunBegin("par", MaxSteps)

SpecRunPar == Init /\ [][NextRunPar]_vars

\* ------------------------------------------------------------------------
\* run_with_order (tests/causal_engine.rs): run to quiescence, each frontier
\* wave in an order the caller chooses
\* ------------------------------------------------------------------------
RemoveAt(seq, k) == SubSeq(seq, 1, k - 1) \o SubSeq(seq, k + 1, Len(seq))

OrderRunBegin(max_events) ==
    /\ Idle
    /\ runKind' = "order"
    /\ stepsLeft' = max_events
    /\ total' = 0
    /\ runMax' = max_events
    /\ runRet' = -1
    /\ world0' = world
    /\ graph0' = graph
    /\ UNCHANGED << world, graph, max_events_per_step, callerIds, pc, schedLocals,
                    front0, count0, log, ret, lastCall, reads, writes, conc, rules, calls, net >>

\* let frontier = order_fn(graph.frontier()): the order is chosen element
\* by element in OrderWaveIter.
OrderWaveBegin ==
    /\ pc = "idle"
    /\ runKind = "order"
    /\ stepsLeft > 0
    /\ frontier(graph) # << >>
    /\ front' = frontier(graph)
    /\ front0' = frontier(graph)
    /\ log' = << >>
    /\ pc' = "wave"
    /\ stepsLeft' = stepsLeft - 1
    /\ UNCHANGED << world, graph, max_events_per_step, callerIds, executed, groups,
                    taskIdx, taskPhase, results, gatherQ, runKind, total, count0, ret,
                    runRet, runMax, lastCall, world0, graph0, reads, writes, conc, rules, calls, net >>

OrderWaveIter(k) ==
    /\ pc = "wave"
    /\ k \in 1 .. Len(front)
    /\ LET r == StepBody(world, graph, front[k])
       IN /\ world' = r.world
          /\ graph' = r.graph
    /\ total' = total + 1
    /\ log' = Append(log, front[k])
    /\ front' = RemoveAt(front, k)
    /\ UNCHANGED << max_events_per_step, callerIds, pc, executed, groups, taskIdx,
                    taskPhase, results, gatherQ, runKind, stepsLeft, front0, count0,
                    ret, runRet, runMax, lastCall, world0, graph0, reads, writes,
                    conc, rules, calls, net >>

OrderWaveEnd ==
    /\ pc = "wave"
    /\ front = << >>
    /\ pc' = "idle"
    /\ UNCHANGED << world, graph, max_events_per_step, callerIds, schedLocals,
                    runLocals, history, conc, rules, calls, net >>

OrderRunEnd ==
    /\ pc = "idle"
    /\ runKind = "order"
    /\ stepsLeft = 0 \/ frontier(graph) = << >>
    /\ runKind' = "none"
    /\ stepsLeft' = 0
    /\ total' = 0
    /\ runRet' = total
    /\ lastCall' = "run_with_order"
    /\ UNCHANGED << world, graph, max_events_per_step, callerIds, pc, schedLocals,
                    front0, count0, log, ret, runMax, world0, graph0, reads, writes,
                    conc, rules, calls, net >>

NextOrder ==
    \/ \E e \in RootEvents : ~Injected(e) /\ InsertRoot(e)
    \/ OrderRunBegin(MaxSteps)
    \/ OrderWaveBegin
    \/ \E k \in 1 .. Len(front) : OrderWaveIter(k)
    \/ OrderWaveEnd
    \/ OrderRunEnd

SpecOrder == InitWith({PitWorld}, {DefaultMaxEvents}) /\ [][NextOrder]_vars

\* ------------------------------------------------------------------------
\* The graph alone: insert, insert_root and mark_executed in any order
\* ------------------------------------------------------------------------
GraphEvent == BlockNotify(Pos(15, 1, 0))

\* An EventId is a plain key: a caller can also pass one that this graph
\* has not issued yet (the key of a node of another graph), which is the id
\* of the node being inserted or of a later one.
ForeignLists == {<<p>> : p \in (Len(graph) + 1) .. MaxNodes}

NextGraph ==
    \/ Len(graph) < MaxNodes /\ InsertRoot(GraphEvent)
    \/ \E ps \in ParentLists \cup ForeignLists :
         Len(graph) < MaxNodes /\ Insert(GraphEvent, ps)
    \/ \E id \in Ids(graph) \cup {NullId} : MarkExecuted(id)

SpecGraph == InitWith({WorldNew}, {DefaultMaxEvents}) /\ [][NextGraph]_vars

\* ------------------------------------------------------------------------
\* World::set_block and World::take_dirty_chunks called from different
\* threads: each access to the chunk map or the dirty set is one action
\* ------------------------------------------------------------------------
schedVars == << graph, max_events_per_step, callerIds, pc, schedLocals, runLocals,
                history, rules, net >>

DirtyCells == {Pos(15, 1, 0), Pos(16, 1, 0)}

DirtyBlocks == {AIR, STONE}

ChunkKeys == {ChunkOf(p) : p \in DirtyCells}

\* Variant: the dirty set is cleared instead of losing the collected keys.
DirtyClear(dirty, cp) == {}

\* self.dirty.remove(pos)
DirtyRemove(dirty, cp) == dirty \ {cp}

\* set_block, first half: the write into the chunk.
SetBlockWrite(t, pos, block) ==
    /\ conc.setPc[t] = "idle"
    /\ world' = WriteChunk(world, pos, block)
    /\ conc' = [conc EXCEPT !.setPc[t] = "written", !.setPos[t] = pos,
                            !.covered[t] = FALSE]
    /\ UNCHANGED schedVars

\* set_block, second half: self.dirty.insert(pos.chunk()). The call has
\* completed; its chunk is unsaved unless a take returned it meanwhile.
SetBlockMark(t) ==
    /\ conc.setPc[t] = "written"
    /\ world' = MarkDirty(world, ChunkOf(conc.setPos[t]))
    /\ conc' = [conc EXCEPT
                  !.setPc[t] = "idle",
                  !.unsaved = IF conc.covered[t] THEN @
                              ELSE @ \cup {ChunkOf(conc.setPos[t])}]
    /\ UNCHANGED schedVars

\* take_dirty_chunks: self.dirty.iter() starts.
TakeBegin ==
    /\ conc.takePc = "idle"
    /\ conc' = [conc EXCEPT !.takePc = "collect", !.toVisit = ChunkKeys,
                            !.collected = << >>, !.removeQ = << >>]
    /\ UNCHANGED << world, schedVars >>

\* The iterator passes the place of key cp and yields it if it is there.
TakeVisit(cp) ==
    /\ conc.takePc = "collect"
    /\ cp \in conc.toVisit
    /\ conc' = [conc EXCEPT
                  !.toVisit = @ \ {cp},
                  !.collected = IF cp \in world.dirty THEN Append(@, cp) ELSE @]
    /\ UNCHANGED << world, schedVars >>

\* .collect() is done; the for-loop over `dirty` starts.
TakeCollected ==
    /\ conc.takePc = "collect"
    /\ conc.toVisit = {}
    /\ conc' = [conc EXCEPT !.takePc = "remove", !.removeQ = conc.collected]
    /\ UNCHANGED << world, schedVars >>

TakeRemove ==
    /\ conc.takePc = "remove"
    /\ conc.removeQ # << >>
    /\ world' = [world EXCEPT !.dirty = DirtyRemove(@, Head(conc.removeQ))]
    /\ conc' = [conc EXCEPT !.removeQ = Tail(@)]
    /\ UNCHANGED schedVars

\* take_dirty_chunks returns `dirty`; the caller reads those chunks next.
TakeReturn ==
    /\ conc.takePc = "remove"
    /\ conc.removeQ = << >>
    /\ conc' = [conc EXCEPT
                  !.takePc = "idle",
                  !.unsaved = @ \ Range(conc.collected),
                  !.covered = [t \in Threads |->
                                 \/ @[t]
                                 \/ /\ conc.setPc[t] = "written"
                                    /\ ChunkOf(conc.setPos[t]) \in Range(conc.collected)]]
    /\ UNCHANGED << world, schedVars >>

NextDirty ==
    \/ \E t \in Threads : \E pos \in DirtyCells : \E b \in DirtyBlocks :
         SetBlockWrite(t, pos, b)
    \/ \E t \in Threads : SetBlockMark(t)
    \/ TakeBegin
    \/ \E cp \in ChunkKeys : TakeVisit(cp)
    \/ TakeCollected
    \/ TakeRemove
    \/ TakeReturn

SpecDirty == InitWith({PitWorld}, {DefaultMaxEvents}) /\ [][NextDirty]_vars

\* ------------------------------------------------------------------------
\* World::set_block, get_block, insert_chunk and take_dirty_chunks called
\* one after the other by a single caller: each call is one action
\* ------------------------------------------------------------------------
worldFrame == << graph, max_events_per_step, callerIds, pc, schedLocals,
                 runLocals, schedHistory, conc, rules, net >>

\* Two cells of one section, a cell below y = 0, a cell of another chunk
\* (negative x, second section), and a cell 2^36 above the first one.
WorldCells ==
    {Pos(0, 0, 0), Pos(1, 0, 0), Pos(0, -1, 0), Pos(-1, SECTION_SIZE, 0),
     FarPos(0, 0, 0, 1)}

WorldBlocks == {AIR, STONE, SAND}

\* Chunks a world-gen or load collaborator hands to insert_chunk.
LoadedChunks ==
    {ChunkNew, ChunkSetBlock(ChunkNew, LocalOf(Pos(1, 0, 0)), STONE)}

LoadedKeys == {ChunkOf(Pos(0, 0, 0)), ChunkOf(Pos(SECTION_SIZE, 0, 0))}

\* The orders in which self.dirty.iter() can yield the keys of a DashSet.
Orders(S) == {seq \in [1 .. Cardinality(S) -> S] : Range(seq) = S}

RECURSIVE RemoveAll(_, _)
\* for pos in &dirty { self.dirty.remove(pos); }
RemoveAll(dirty, seq) ==
    IF seq = << >> THEN dirty
    ELSE RemoveAll(DirtyRemove(dirty, Head(seq)), Tail(seq))

WorldSetBlock(pos, block) ==
    /\ world' = set_block(world, pos, block)
    /\ calls' = [calls EXCEPT !.written = MapPut(@, pos, block),
                              !.targeted = @ \cup {ChunkOf(pos)},
                              !.last = "set_block",
                              !.arg = <<pos, block>>,
                              !.prev = get_block(world, pos),
                              !.out = << >>]
    /\ UNCHANGED worldFrame

\* get_block takes &self: a DashMap::get, then Chunk::get_block.
WorldGetBlock(pos) ==
    /\ calls' = [calls EXCEPT !.last = "get_block", !.arg = <<pos>>,
                              !.out = <<get_block(world, pos)>>]
    /\ UNCHANGED << world, worldFrame >>

WorldInsertChunk(cp, chunk) ==
    /\ world' = insert_chunk(world, cp, chunk)
    /\ calls' = [calls EXCEPT !.last = "insert_chunk", !.arg = <<cp, chunk>>,
                              !.out = << >>]
    /\ UNCHANGED worldFrame

\* take_dirty_chunks: collect the keys, remove each, return the Vec.
WorldTakeDirty ==
    \E seq \in Orders(world.dirty) :
      /\ world' = [world EXCEPT !.dirty = RemoveAll(@, seq)]
      /\ calls' = [calls EXCEPT !.targeted = {}, !.taken = calls.targeted,
                                !.last = "take_dirty_chunks", !.arg = << >>,
                                !.out = seq]
      /\ UNCHANGED worldFrame

NextWorld ==
    \/ \E pos \in WorldCells : \E b \in WorldBlocks : WorldSetBlock(pos, b)
    \/ \E pos \in WorldCells : WorldGetBlock(pos)

SpecWorld == InitWith({WorldNew}, {DefaultMaxEvents}) /\ [][NextWorld]_vars

\* One cell in each of two chunks.
DrainCells == {Pos(0, 0, 0), Pos(-1, SECTION_SIZE, 0)}

NextWorldDirty ==
    \/ \E pos \in DrainCells : \E b \in DirtyBlocks : WorldSetBlock(pos, b)
    \/ \E pos \in DrainCells : WorldGetBlock(pos)
    \/ \E cp \in LoadedKeys : \E chunk \in LoadedChunks : WorldInsertChunk(cp, chunk)
    \/ WorldTakeDirty

SpecWorldDirty == InitWith({WorldNew}, {DefaultMaxEvents}) /\ [][NextWorldDirty]_vars

\* ------------------------------------------------------------------------
\* run_with_order with the three frontier orders of the invariance tests,
\* on roots in chunks that are not neighbours
\* ------------------------------------------------------------------------
\* f.reverse()
Reverse(f) == [i \in 1 .. Len(f) |-> f[Len(f) + 1 - i]]

\* The ids at even (0-based) indices, then those at odd indices.
EvenFirst(f) ==
    LET evens == (Len(f) + 1) \div 2
    IN [i \in 1 .. Len(f) |-> IF i <= evens THEN f[2 * i - 1] ELSE f[2 * (i - evens)]]

OrderNames == {"natural", "reversed", "interleaved"}

order_fn(name, f) ==
    CASE name = "natural" -> f
      [] name = "reversed" -> Reverse(f)
      [] name = "interleaved" -> EvenFirst(f)

RECURSIVE WaveLoop(_, _, _, _, _)
\* for id in frontier { apply; mark_executed; total += 1; evaluate; insert }
WaveLoop(w, g, ids, sum, done) ==
    IF ids = << >> THEN [world |-> w, graph |-> g, total |-> sum, log |-> done]
    ELSE IF Head(ids) \notin Ids(g) THEN WaveLoop(w, g, Tail(ids), sum, done)
    ELSE LET r == StepBody(w, g, Head(ids))
         IN WaveLoop(r.world, r.graph, Tail(ids), sum + 1, Append(done, Head(ids)))

RECURSIVE OrderLoop(_, _, _, _, _, _)
\* for _ in 0..max_events { frontier = order_fn(..); if empty break; .. }
OrderLoop(w, g, name, left, sum, done) ==
    IF left = 0 \/ order_fn(name, frontier(g)) = << >>
    THEN [world |-> w, graph |-> g, total |-> sum, log |-> done]
    ELSE LET r == WaveLoop(w, g, order_fn(name, frontier(g)), sum, done)
         IN OrderLoop(r.world, r.graph, name, left - 1, r.total, r.log)

run_with_order(w, g, name, max_events) == OrderLoop(w, g, name, max_events, 0, << >>)

\* Sand columns in chunk 0 and chunk 2, a two-cell water pit in chunk 4.
SandColumns == {4, 36}

FarPit == {Pos(68, 1, 0), Pos(69, 1, 0)}

FarPitRegion == {Pos(x, y, z) : x \in 67 .. 70, y \in 0 .. 2, z \in -1 .. 1}

\* The columns the tests compare.
FarCells == {Pos(x, y, 0) : x \in SandColumns, y \in 0 .. MaxY + 2} \cup FarPitRegion

\* A stone floor under the sand columns, a stone floor and a ring of stone
\* around the pit.
FarWorld ==
    Fill(WorldNew,
         {Pos(x, 0, 0) : x \in SandColumns}
            \cup {p \in FarPitRegion : p[2] <= 1 /\ p \notin FarPit},
         STONE)

FarRoots ==
    {BlockSet(Pos(x, MaxY + 1, 0), AIR, SAND) : x \in SandColumns}
       \cup {BlockSet(Pos(68, 1, 0), AIR, WATER)}

\* One whole call of run_with_order.
OrderedRun(name, max_events) ==
    /\ Idle
    /\ LET r == run_with_order(world, graph, name, max_events)
       IN /\ world' = r.world
          /\ graph' = r.graph
          /\ runRet' = r.total
          /\ log' = r.log
    /\ runMax' = max_events
    /\ lastCall' = "run_with_order"
    /\ world0' = world
    /\ graph0' = graph
    /\ UNCHANGED << max_events_per_step, callerIds, pc, schedLocals, runLocals,
                    front0, count0, ret, reads, writes, conc, rules, calls, net >>

NextFar ==
    \/ \E e \in FarRoots : ~Injected(e) /\ InsertRoot(e)
    \/ \E name \in OrderNames : OrderedRun(name, MaxSteps)

SpecFar == InitWith({FarWorld}, {DefaultMaxEvents}) /\ [][NextFar]_vars

\* ------------------------------------------------------------------------
\* Sand dropped into one column over a stone floor, one block after the
\* other, each run to quiescence by run_until_quiet
\* (tests/causal_engine.rs: sand_falls_to_surface, sand_stacks_on_sand,
\* sand_on_bedrock_stays)
\* ------------------------------------------------------------------------
SandCell(y) == Pos(4, y, 0)

SandWorld == Fill(WorldNew, {SandCell(0)}, STONE)

SandDrops == {BlockSet(SandCell(y), AIR, SAND) : y \in 1 .. MaxY + 1}

NextSand ==
    \/ \E e \in SandDrops :
         frontier(graph) = << >> /\ Len(callerIds) < MaxNodes /\ InsertRoot(e)
    \/ frontier(graph) # << >> /\ RunBegin("seq", MaxSteps)
    \/ runKind = "seq" /\ StepBegin
    \/ StepIter
    \/ StepEnd

SpecSand == InitWith({SandWorld}, {DefaultMaxEvents}) /\ [][NextSand]_vars

\* ------------------------------------------------------------------------
\* One fluid source placed on a flat stone floor and run to quiescence
\* (tests/causal_engine.rs: water_spreads_horizontally_on_surface,
\* lava_spread_limited_to_3_blocks)
\* ------------------------------------------------------------------------
FlatSource == Pos(8, 1, 8)

\* The cells above the floor: a square around the source.
FlatCells == {Pos(x, 1, z) : x \in 0 .. 16, z \in 0 .. 16}

\* flat_world: each chunk is filled by Chunk::set_block with one
\* non-AIR block and handed to insert_chunk.
ChunkWith(cells, block) ==
    [idx \in {section_index(LocalOf(p)) : p \in cells} |->
       [i \in {SectionIndex(LocalOf(p)[1], section_local_y(LocalOf(p)), LocalOf(p)[3]) :
                 p \in {q \in cells : section_index(LocalOf(q)) = idx}} |-> block]]

WorldWith(cells, block) ==
    [chunks |-> [cp \in {ChunkOf(p) : p \in cells} |->
                   ChunkWith({p \in cells : ChunkOf(p) = cp}, block)],
     dirty |-> {}]

FlatWorld == WorldWith({Below(p) : p \in FlatCells}, STONE)

SourceRoots == {BlockSet(FlatSource, AIR, FluidAt(kind, 0)) : kind \in {"water", "lava"}}

NextSpread ==
    \/ \E e \in SourceRoots : graph = GraphNew /\ InsertRoot(e)
    \/ frontier(graph) # << >> /\ RunBegin("seq", 2 * MaxSteps)
    \/ runKind = "seq" /\ StepBegin
    \/ StepIter
    \/ StepEnd

SpecSpread ==
    InitRules({FlatWorld}, {DefaultMaxEvents}, {LavaRules}) /\ [][NextSpread]_vars

\* ------------------------------------------------------------------------
\* A spread fluid cut off from its source: the source is broken, or walled
\* in, the neighbours of every changed cell are notified in a fresh graph,
\* and the graph is run to quiescence
\* (tests/causal_engine.rs: flowing_water_drains_when_source_removed,
\* water_drains_behind_wall, lava_drains_when_source_removed)
\* ------------------------------------------------------------------------
\* CausalGraph::new(): the caller starts a second graph.
NewGraph ==
    /\ Idle
    /\ graph' = GraphNew
    /\ callerIds' = << >>
    /\ lastCall' = "new"
    /\ UNCHANGED << world, max_events_per_step, pc, schedLocals, runLocals, front0,
                    count0, log, ret, runRet, runMax, world0, graph0, reads, writes, conc, rules, calls, net >>

\* A block change as the callers announce it: a root BlockSet from the
\* block in place to `new`, and a BlockNotify child for each of the six
\* neighbours.
Announce(w, g, pos, new) ==
    InsertAll(insert_root(g, BlockSet(pos, get_block(w, pos), new)),
              notify_neighbors(pos), Len(g) + 1)

RECURSIVE AnnounceAll(_, _, _, _)
AnnounceAll(w, g, cells, new) ==
    IF cells = << >> THEN g
    ELSE AnnounceAll(w, Announce(w, g, Head(cells), new), Tail(cells), new)

\* The caller replaces the blocks at `cells` by `new`, one root each.
Replace(cells, new) ==
    /\ Idle
    /\ graph' = AnnounceAll(world, graph, cells, new)
    /\ callerIds' = callerIds \o [i \in 1 .. Len(cells) |-> Len(graph) + 7 * (i - 1) + 1]
    /\ lastCall' = "insert"
    /\ UNCHANGED << world, max_events_per_step, pc, schedLocals, runLocals, front0,
                    count0, log, ret, runRet, runMax, world0, graph0, reads, writes, conc, rules, calls, net >>

\* The room: five by five cells over a stone floor, closed by a ring of
\* stone, so that the fluid stays on the floor.
RoomCells == {Pos(x, 1, z) : x \in 1 .. 5, z \in 1 .. 5}

RoomRing == {Pos(x, 1, z) : x \in 0 .. 6, z \in 0 .. 6} \ RoomCells

RoomWorld == WorldWith({Below(p) : p \in RoomCells \cup RoomRing} \cup RoomRing, STONE)

\* Where the caller places the source: the middle, a corner, the middle
\* of a side, and a cell off every axis of symmetry.
RoomSources == {Pos(3, 1, 3), Pos(1, 1, 1), Pos(3, 1, 1), Pos(2, 1, 4)}

RoomRoots ==
    {BlockSet(p, AIR, FluidAt(kind, 0)) : p \in RoomSources, kind \in {"water", "lava"}}

\* The cells of w that hold a source block.
Sources(w) == {p \in RoomCells : get_block(w, p) \in {WATER, LAVA}}

\* The wall of the test: the four cells beside the source.
wall_positions(source_pos) == horizontal_neighbors(source_pos)

\* The step bound the caller gives the draining run.
DrainSteps == 8 * MaxSteps

\* The graph in hand is the one that placed the source.
Placing == graph # GraphNew /\ graph[1].event \in RoomRoots

NextDrain ==
    \/ \E e \in RoomRoots :
         graph = GraphNew /\ world = RoomWorld /\ InsertRoot(e)
    \/ Placing /\ lastCall = "run_until_quiet" /\ NewGraph
    \/ \E p \in Sources(world) :
         graph = GraphNew /\ lastCall = "new" /\ Replace(<<p>>, AIR)
    \/ \E p \in Sources(world) :
         graph = GraphNew /\ lastCall = "new" /\ Replace(wall_positions(p), STONE)
    \/ \E p \in Sources(world) :
         graph = GraphNew /\ lastCall = "new" /\ InsertRoot(BlockNotify(p))
    \/ frontier(graph) # << >> /\ RunBegin("seq", DrainSteps)
    \/ runKind = "seq" /\ StepBegin
    \/ StepIter
    \/ StepEnd

SpecDrain ==
    InitRules({RoomWorld}, {DefaultMaxEvents}, {LavaRules}) /\ [][NextDrain]_vars

\* ------------------------------------------------------------------------
\* A water source on top of a stone pillar, or on the ground beside it, in
\* a closed room; the caller may set lava over a ground cell, and breaks
\* the source, announcing it to the six neighbours, before or after the
\* water has come to rest
\* (tests/causal_engine.rs: elevated_water_source_drains_when_removed,
\* water_falls_before_spreading)
\* ------------------------------------------------------------------------
PillarCell(y) == Pos(2, y, 2)

\* The source of the test: right above the pillar.
PillarTop == PillarCell(MaxY + 1)

\* The room around the pillar, as high as the source.
PillarCells ==
    {Pos(x, y, z) : x \in 1 .. 3, y \in 1 .. MaxY + 1, z \in 1 .. 3}
       \ {PillarCell(y) : y \in 1 .. MaxY}

PillarStone ==
    {Pos(x, y, z) : x \in 0 .. 4, y \in 0 .. MaxY + 1, z \in 0 .. 4} \ PillarCells

PillarWorld == WorldWith(PillarStone, STONE)

\* The source on the pillar, or on the ground in a corner of the room.
PillarSources == {PillarTop, Pos(1, 1, 1)}

\* Where the caller sets lava: over the ground cell of the far corner.
LavaCell == Pos(3, 2, 3)

\* The source the caller placed is in the world and its removal has not
\* been announced.
Standing(p) ==
    /\ get_block(world, p) = WATER
    /\ \A id \in Ids(graph) : graph[id].event # BlockSet(p, WATER, AIR)

NextPillar ==
    \/ \E p \in PillarSources :
         graph = GraphNew /\ world = PillarWorld /\ InsertRoot(BlockSet(p, AIR, WATER))
    \/ \E p \in PillarSources :
         /\ Standing(p)
         /\ frontier(graph) = << >>
         /\ get_block(world, LavaCell) = AIR
         /\ InsertRoot(BlockSet(LavaCell, AIR, LAVA))
    \/ \E p \in PillarSources :
         /\ Standing(p)
         /\ graph # GraphNew
         /\ frontier(graph) = << >>
         /\ NewGraph
    \/ \E p \in PillarSources : Standing(p) /\ Replace(<<p>>, AIR)
    \/ \E n \in {1, DrainSteps} : frontier(graph) # << >> /\ RunBegin("seq", n)
    \/ runKind = "seq" /\ StepBegin
    \/ StepIter
    \/ StepEnd

SpecPillar == InitWith({PillarWorld}, {DefaultMaxEvents}) /\ [][NextPillar]_vars

\* ========================================================================
\* Properties
\* ========================================================================
\* What run_until_quiet does from where the last run began: the frontier
\* waves in their natural (insertion) order.
NaturalRun(budget) == run_until_quiet(world0, graph0, budget, runMax)

\* C1 (order invariance): a run to quiescence that executes the events of
\* each frontier wave in any order ends with the same block at every
\* position as the run that executes them in their natural order, from the
\* same world and the same roots.
C1_OrderInvariance ==
    (lastCall = "run_with_order" /\ frontier(graph) = << >>
        /\ frontier(NaturalRun(DefaultMaxEvents).graph) = << >>)
    => SameBlocks(world, NaturalRun(DefaultMaxEvents).world)

\* C2 (sequential-parallel equivalence): run_until_quiet_parallel, when it
\* has reached quiescence, leaves the same block at every position as
\* run_until_quiet from the same world and the same roots.
C2_SeqParEquivalence ==
    (lastCall = "run_until_quiet_parallel" /\ frontier(graph) = << >>
        /\ frontier(NaturalRun(max_events_per_step).graph) = << >>)
    => SameBlocks(world, NaturalRun(max_events_per_step).world)

\* C3 (causal order): every executed node has all its parents in the graph
\* and executed, and so has every node that the frontier, or a step in
\* progress, holds for execution.
C3_CausalOrder ==
    \A id \in Ids(graph) :
        (\/ graph[id].executed
         \/ id \in Range(frontier(graph))
         \/ id \in Range(front)
         \/ \E i \in 1 .. Len(groups) : id \in Range(groups[i]))
        => \A i \in 1 .. Len(graph[id].parents) :
              /\ graph[id].parents[i] \in Ids(graph)
              /\ graph[graph[id].parents[i]].executed

\* A node the caller inserted under a parent has been executed.
C3_Witness ==
    \E id \in Range(callerIds) :
        /\ graph[id].executed
        /\ graph[id].parents # << >>
        /\ \E other \in Range(callerIds) :
              ~graph[other].executed /\ NullId \in Range(graph[other].parents)

\* The ids that are unexecuted while each of their parents is in the graph
\* and executed.
Eligible(g) ==
    {id \in Ids(g) :
        /\ ~g[id].executed
        /\ \A i \in 1 .. Len(g[id].parents) :
              /\ g[id].parents[i] \in Ids(g)
              /\ g[g[id].parents[i]].executed}

\* C4 (frontier correctness): after any sequence of insert, insert_root and
\* mark_executed, frontier() lists exactly the unexecuted nodes whose
\* parents are all present and executed, each once; an unexecuted node
\* without parents is listed, a node with an unexecuted parent is not.
C4_FrontierCorrect ==
    /\ Range(frontier(graph)) = Eligible(graph)
    /\ Len(frontier(graph)) = Cardinality(Eligible(graph))
    /\ \A id \in Ids(graph) :
          /\ (graph[id].parents = << >> /\ ~graph[id].executed)
                => id \in Range(frontier(graph))
          /\ (\E i \in 1 .. Len(graph[id].parents) :
                 /\ graph[id].parents[i] \in Ids(graph)
                 /\ ~graph[graph[id].parents[i]].executed)
                => id \notin Range(frontier(graph))

\* A join of two parents, one executed and one not, is kept off the
\* frontier while its unexecuted root parent is on it.
C4_Witness ==
    /\ lastCall = "mark_executed"
    /\ \E id \in Ids(graph) :
          /\ Len(graph[id].parents) = 2
          /\ graph[id].parents[1] \in Ids(graph)
          /\ graph[id].parents[2] \in Ids(graph)
          /\ graph[graph[id].parents[1]].executed
          /\ ~graph[graph[id].parents[2]].executed
          /\ graph[graph[id].parents[2]].parents = << >>
          /\ graph[id].parents[2] \in Range(frontier(graph))
          /\ id \notin Range(frontier(graph))

\* No node is eligible: every node whose parents are all present and
\* executed is executed itself.
Quiescent(g) == Eligible(g) = {}

\* A step that has not executed anything yet.
StepUntouched ==
    \/ pc = "idle" /\ pc' = "step"
    \/ pc = "step" /\ log = << >>

\* A step on a quiescent graph changes neither world nor graph, executes
\* nothing and returns zero.
StepAtQuietIsNoOp ==
    (Quiescent(graph) /\ StepUntouched)
    => /\ world' = world
       /\ graph' = graph
       /\ log' = << >>
       /\ (pc' = "idle" => ret' = 0)

\* C5 as the specification states it (quiescence fixed point, for every
\* max_steps and max_events_per_step): when run_until_quiet returns zero
\* the frontier is empty, and a later step is a no-op returning zero.
C5_QuiescenceAnyBudget ==
    /\ [](lastCall = "run_until_quiet" /\ runRet = 0 => Quiescent(graph))
    /\ [][StepAtQuietIsNoOp]_vars

\* C5 (quiescence fixed point), for max_steps >= 1 and
\* max_events_per_step >= 1: when run_until_quiet returns zero the frontier
\* is empty, and until a node is inserted every step changes neither world
\* nor graph and returns zero.
C5_QuiescenceFixedPoint ==
    /\ []((lastCall = "run_until_quiet" /\ runRet = 0 /\ runMax >= 1
             /\ max_events_per_step >= 1) => Quiescent(graph))
    /\ [][StepAtQuietIsNoOp]_vars

\* After a run that emptied the graph's frontier, a run returned zero and
\* then a step returned zero.
C5_Witness ==
    /\ lastCall = "step"
    /\ ret = 0
    /\ runRet = 0
    /\ runMax >= 1
    /\ max_events_per_step >= 1
    /\ graph # << >>
    /\ graph = graph0
    /\ Quiescent(graph)

\* C6 (parallel isolation): within one step_parallel wave, no chunk group
\* reads a block position that another chunk group writes.
C6_ParallelIsolation ==
    \A r \in reads : \A w \in writes : r[2] = w[2] => r[1] = w[1]

\* The chunk column of the position of node id's event.
ColumnOf(id) == ChunkOf(graph[id].event.pos)

\* The places <<group, index>> of the scatter phase that hold node id.
PlacesOf(id) ==
    {ij \in (1 .. Len(groups)) \X (1 .. Len(graph)) :
        ij[2] <= Len(groups[ij[1]]) /\ groups[ij[1]][ij[2]] = id}

\* C7 (parallel partition): step_parallel puts every event of the trimmed
\* frontier in exactly one group, the group of the chunk column of its
\* position; there is one group, run as one task, per chunk column, so no
\* two tasks apply a BlockSet in the same chunk.
C7_ParallelPartition ==
    /\ pc = "scatter" =>
          /\ \A k \in 1 .. Len(front0) :
                Cardinality(PlacesOf(front0[k])) =
                    IF k <= max_events_per_step THEN 1 ELSE 0
          /\ \A i \in 1 .. Len(groups) : \A j \in 1 .. Len(groups) :
                \A a \in Range(groups[i]) : \A b \in Range(groups[j]) :
                    (i = j) <=> (ColumnOf(a) = ColumnOf(b))
    /\ \A w1 \in writes : \A w2 \in writes :
          ChunkOf(w1[2]) = ChunkOf(w2[2]) => w1[1] = w2[1]

\* Two tasks run in one wave, one of them holds events of two rows, and
\* both have applied a BlockSet.
C7_Witness ==
    /\ pc = "scatter"
    /\ Len(groups) = 2
    /\ \E i \in 1 .. Len(groups) : \E a \in Range(groups[i]) :
          \E b \in Range(groups[i]) : graph[a].event.pos[2] # graph[b].event.pos[2]
    /\ \E w1 \in writes : \E w2 \in writes : w1[1] # w2[1]

\* C8 (dirty-set race safety): the chunk of every completed set_block is in
\* the dirty set, or is collected by the take_dirty_chunks call in
\* progress, or was returned by a take_dirty_chunks call that returned after
\* the block was written.
C8_DirtyRaceSafe ==
    \A cp \in conc.unsaved :
        \/ cp \in world.dirty
        \/ conc.takePc # "idle" /\ cp \in Range(conc.collected)

\* A set_block completed while take_dirty_chunks was past that chunk's key;
\* the take has removed what it collected and the chunk is still dirty.
C8_Witness ==
    /\ conc.takePc = "remove"
    /\ conc.collected # << >>
    /\ conc.removeQ = << >>
    /\ \E cp \in conc.unsaved : cp \notin Range(conc.collected) /\ cp \in world.dirty

\* C9 (wave ordering): a step executes only nodes of the frontier computed
\* when it began; the consequents it inserts are unexecuted when it returns
\* and are on the frontier then.
C9_WaveOrdering ==
    /\ Range(log) \subseteq Range(front0)
    /\ (pc = "idle" /\ ret >= 0) =>
          \A id \in Ids(graph) :
              (Len(graph[id].parents) = 1 /\ graph[id].parents[1] \in Range(log))
              => ~graph[id].executed /\ id \in Range(frontier(graph))

\* A step has returned after executing an event whose consequent waits.
C9_Witness ==
    /\ pc = "idle"
    /\ ret > 0
    /\ \E id \in Ids(graph) :
          /\ Len(graph[id].parents) = 1
          /\ graph[id].parents[1] \in Range(log)
          /\ ~graph[id].executed

\* C10 (step bound and count): a step executes min(|frontier|,
\* max_events_per_step) events, returns that number, and executed_count
\* grows by it.
C10_StepBound ==
    (pc = "idle" /\ ret >= 0) =>
        /\ ret = (IF Len(front0) < max_events_per_step
                  THEN Len(front0) ELSE max_events_per_step)
        /\ Len(log) = ret
        /\ Cardinality(Range(log)) = ret
        /\ executed_count(graph) = count0 + ret

\* step_parallel has returned after a wave cut short by the budget.
C10_Witness ==
    /\ pc = "idle"
    /\ lastCall = "step_parallel"
    /\ ret > 0
    /\ ret = max_events_per_step
    /\ Len(front0) > ret

\* ------------------------------------------------------------------------
\* run_until_quiet with small step bounds, called again and again on the
\* same graph and world, for the standard rules and for a rule set that is
\* productive forever
\* ------------------------------------------------------------------------
NextBounded ==
    \/ \E e \in RootEvents :
         ~Injected(e) /\ lastCall \in {"none", "insert"} /\ InsertRoot(e)
    \/ \E ms \in {1, 2} : Len(graph) <= MaxGraph /\ RunBegin("seq", ms)
    \/ runKind = "seq" /\ StepBegin
    \/ StepIter
    \/ StepEnd

SpecBounded ==
    /\ InitRules({PitWorld}, {2, DefaultMaxEvents}, {StandardRules, EchoRules})
    /\ [][NextBounded]_vars

\* What one uninterrupted run_until_quiet does from world w and graph g.
Uninterrupted(w, g) == run_until_quiet(w, g, max_events_per_step, 2 * MaxGraph)

\* C11 (bounded run and resumption): run_until_quiet(max_steps) makes at
\* most max_steps calls to step, whatever the rules produce, and returns
\* the number of events executed; what it leaves unexecuted stays in the
\* graph, and running again from there ends in the same world as one
\* uninterrupted run from where it began.
C11_BoundedResumable ==
    /\ runKind = "seq" => stepsLeft \in 1 .. runMax
    /\ (lastCall = "run_until_quiet" /\ runRet >= 0) =>
          /\ runRet = executed_count(graph) - executed_count(graph0)
          /\ runRet <= runMax * max_events_per_step
          /\ \A id \in Ids(graph0) : graph[id].event = graph0[id].event
          /\ (rules = StandardRules
                /\ Quiescent(Uninterrupted(world0, graph0).graph)) =>
                /\ Quiescent(Uninterrupted(world, graph).graph)
                /\ SameBlocks(Uninterrupted(world, graph).world,
                              Uninterrupted(world0, graph0).world)

\* A run resumed a cascade that an earlier run had left unfinished, and
\* was itself stopped by its bound with work left.
C11_Witness ==
    /\ lastCall = "run_until_quiet"
    /\ rules = StandardRules
    /\ runRet > 0
    /\ executed_count(graph0) > 0
    /\ ~Quiescent(graph0)
    /\ ~Quiescent(graph)
    /\ Quiescent(Uninterrupted(world0, graph0).graph)

\* C12 (cascade completion): with the standard rules, on a graph grown from
\* roots, a run_until_quiet in progress has at most max_steps steps to take,
\* each a walk down the finite frontier it began with, and when
\* its step bound exceeded the number of nodes (and max_events_per_step >=
\* 1) it returns at quiescence: the frontier is empty and every node is
\* executed.
C12_CascadeCompletes ==
    /\ (lastCall = "run_until_quiet" /\ runRet >= 0
           /\ max_events_per_step >= 1 /\ runMax > Len(graph))
       => /\ Quiescent(graph)
          /\ frontier(graph) = << >>
          /\ executed_count(graph) = Len(graph)
    /\ runKind = "seq" =>
          /\ stepsLeft \in 1 .. runMax
          /\ pc \in {"idle", "step"}
          /\ pc = "step" => Len(front) + Len(log) = Len(front0)

\* A run that needed several steps ended with every node executed.
C12_Witness ==
    /\ lastCall = "run_until_quiet"
    /\ runKind = "none"
    /\ runMax > Len(graph)
    /\ max_events_per_step = 2
    /\ Len(graph) >= 5
    /\ runRet = Len(graph)
    /\ executed_count(graph) = Len(graph)

\* ------------------------------------------------------------------------
\* Graph operations by the caller, mark_executed included, mixed with
\* scheduler steps
\* ------------------------------------------------------------------------
AppendChild == {BlockNotify(Pos(16, MaxY, 0))}

NextAppend ==
    \/ \E e \in SandRoot : ~Injected(e) /\ InsertRoot(e)
    \/ \E e \in AppendChild : \E ps \in ParentLists : ~Injected(e) /\ Insert(e, ps)
    \/ \E id \in Range(callerIds) \cup {NullId} : MarkExecuted(id)
    \/ StepBegin
    \/ StepIter
    \/ StepEnd
    \/ ParBegin
    \/ \E i \in 1 .. Len(groups) : ParApply(i)
    \/ \E i \in 1 .. Len(groups) : ParEval(i)
    \/ ParJoin
    \/ ParGatherIter
    \/ ParEnd

SpecAppend == InitWith({PitWorld}, {DefaultMaxEvents}) /\ [][NextAppend]_vars

\* One transition keeps every node, its event and its parent list, and
\* keeps every executed flag that is set.
GraphGrows ==
    /\ Ids(graph) \subseteq Ids(graph')
    /\ \A id \in Ids(graph) :
          /\ graph'[id].event = graph[id].event
          /\ graph'[id].parents = graph[id].parents
          /\ graph[id].executed => graph'[id].executed
    /\ Len(graph') >= Len(graph)
    /\ executed_count(graph') >= executed_count(graph)

\* An insert by the caller adds one node, under an id that was free.
InsertAddsOne ==
    callerIds' # callerIds =>
        /\ Len(graph') = Len(graph) + 1
        /\ callerIds' = Append(callerIds, Len(graph'))
        /\ Len(graph') \notin Ids(graph)
        /\ ~graph'[Len(graph')].executed

\* C13 (append-only, monotone graph): no graph operation and no scheduler
\* step removes a node, changes the event or the parents of a node, or
\* clears an executed flag; an insert adds exactly one node under a new id;
\* so len() and executed_count() never decrease.
C13_AppendOnly == [][GraphGrows /\ InsertAddsOne]_vars

\* The caller and the scheduler have both inserted nodes and both marked
\* nodes executed.
C13_Witness ==
    /\ lastCall = "mark_executed"
    /\ Len(callerIds) >= 2
    /\ \E id \in Ids(graph) : id \notin Range(callerIds) /\ graph[id].executed
    /\ \E id \in Range(callerIds) : graph[id].executed /\ graph[id].parents # << >>

Written(pos) == IF pos \in DOMAIN calls.written THEN calls.written[pos] ELSE AIR

\* No stored section of the chunk is all AIR.
Sparse(chunk) == \A idx \in DOMAIN chunk : ~SectionIsEmpty(chunk[idx])

\* The non-AIR cells of the section that holds lp are at most lp itself.
LastBlockAt(chunk, lp) ==
    /\ section_index(lp) \in DOMAIN chunk
    /\ DOMAIN chunk[section_index(lp)] =
          {SectionIndex(lp[1], section_local_y(lp), lp[3])}

\* C17: after any sequence of set_block calls (AIR writes and writes below
\* y = 0 included) no chunk stores a section that is all AIR; from every
\* such chunk, writing AIR to the last non-AIR block of a section removes
\* the section, writing AIR into an absent section leaves the chunk as it
\* is, and any further write keeps the chunk free of all-AIR sections.
C17_AirSparse ==
    \A cp \in DOMAIN world.chunks :
      LET chunk == world.chunks[cp] IN
      /\ Sparse(chunk)
      /\ \A pos \in WorldCells :
           LET lp == LocalOf(pos)
               cleared == ChunkSetBlock(chunk, lp, AIR)
           IN /\ section_index(lp) \notin DOMAIN chunk => cleared = chunk
              /\ LastBlockAt(chunk, lp) =>
                    /\ section_index(lp) \notin DOMAIN cleared
                    /\ Cardinality(DOMAIN cleared) = Cardinality(DOMAIN chunk) - 1
              /\ ChunkGetBlock(cleared, lp) = AIR
              /\ \A b \in WorldBlocks : Sparse(ChunkSetBlock(chunk, lp, b))

\* AIR was just written over the only block of the section below y = 0,
\* and the section is gone while the one above it is still stored.
C17_Witness ==
    /\ calls.last = "set_block"
    /\ calls.arg = <<Pos(0, -1, 0), AIR>>
    /\ calls.prev # AIR
    /\ DOMAIN world.chunks[ChunkOf(Pos(0, -1, 0))] = {0}

\* C18: the world reads as the map of the last set_block per position,
\* AIR where none was made; every position written has its chunk; the
\* value get_block returned is that of the map.
C18_TotalMap ==
    /\ \A pos \in WorldCells : get_block(world, pos) = Written(pos)
    /\ \A pos \in DOMAIN calls.written : has_chunk(world, ChunkOf(pos))
    /\ calls.last = "get_block" => calls.out = <<Written(calls.arg[1])>>

\* C19: with a single caller the dirty set is the set of chunks set_block
\* targeted since the last take_dirty_chunks, whatever insert_chunk and
\* get_block calls were made; take_dirty_chunks returns each of them once
\* and leaves the set empty, so that a drain right after returns nothing.
C19_DirtyExact ==
    /\ world.dirty = calls.targeted
    /\ calls.last = "take_dirty_chunks" =>
          /\ Range(calls.out) = calls.taken
          /\ Len(calls.out) = Cardinality(calls.taken)
          /\ world.dirty = {}
          /\ Orders(world.dirty) = {<< >>}
    /\ calls.last \in {"insert_chunk", "get_block"} =>
          \A cp \in LoadedKeys : \A chunk \in LoadedChunks : \A pos \in WorldCells :
             /\ insert_chunk(world, cp, chunk).dirty = calls.targeted
             /\ get_block(insert_chunk(world, cp, chunk), pos) \in WorldBlocks

\* A drain returned two chunks while a chunk that was only inserted is
\* loaded and was not returned.
C19_Witness ==
    /\ calls.last = "take_dirty_chunks"
    /\ Cardinality(calls.taken) = 2
    /\ has_chunk(world, ChunkOf(Pos(SECTION_SIZE, 0, 0)))
    /\ ChunkOf(Pos(SECTION_SIZE, 0, 0)) \notin calls.taken

\* ------------------------------------------------------------------------
\* Roots in chunks that are not neighbours (SpecFar)
\* ------------------------------------------------------------------------
SameFar(w1, w2) == \A p \in FarCells : get_block(w1, p) = get_block(w2, p)

\* What run_with_order does under the named order from where the last run
\* began.
Rerun(name) == run_with_order(world0, graph0, name, runMax)

\* C20: a run_with_order that drained the graph, whichever of the natural,
\* reversed and interleaved orders it used at every wave, leaves every
\* compared column as each of the three orders leaves it from the same
\* world and roots; all three drain the graph, and the sand of every
\* injected sand root lies on the floor.
C20_IndependentChunks ==
    (lastCall = "run_with_order" /\ frontier(graph) = << >>) =>
       /\ \A name \in OrderNames :
             /\ frontier(Rerun(name).graph) = << >>
             /\ SameFar(world, Rerun(name).world)
       /\ \A x \in SandColumns :
             Injected(BlockSet(Pos(x, MaxY + 1, 0), AIR, SAND)) =>
                /\ get_block(world, Pos(x, 1, 0)) = SAND
                /\ \A y \in 2 .. MaxY + 2 : get_block(world, Pos(x, y, 0)) = AIR

\* All three roots ran in one call that did not use the natural order, and
\* the three orders executed different numbers of events.
C20_Witness ==
    /\ lastCall = "run_with_order"
    /\ frontier(graph) = << >>
    /\ Len(graph0) = Cardinality(FarRoots)
    /\ executed_count(graph0) = 0
    /\ log # Rerun("natural").log
    /\ Rerun("natural").total # Rerun("reversed").total
    /\ Rerun("natural").total # Rerun("interleaved").total
    /\ get_block(world, Pos(69, 1, 0)) = water_at_level(1)

\* ------------------------------------------------------------------------
\* The standard rules: gravity and fluids
\* ------------------------------------------------------------------------
\* The events of g that are not executed.
Pending(g) == {id \in Ids(g) : ~g[id].executed}

\* The y of the highest block below pos that is not replaceable.
GroundY(w, pos) ==
    CHOOSE y \in 0 .. pos[2] - 1 :
       /\ ~is_replaceable(get_block(w, Pos(pos[1], y, pos[3])))
       /\ \A y2 \in y + 1 .. pos[2] - 1 :
             is_replaceable(get_block(w, Pos(pos[1], y2, pos[3])))

\* pos is the top of a run of AIR that stands on a block.
TopOfAirRun(w, pos) ==
    /\ \E y \in 0 .. pos[2] - 1 : ~is_replaceable(get_block(w, Pos(pos[1], y, pos[3])))
    /\ \A y \in GroundY(w, pos) + 1 .. pos[2] : get_block(w, Pos(pos[1], y, pos[3])) = AIR

\* C21: when run_until_quiet has drained a graph whose only pending event
\* was a root that places sand at the top of a run of AIR, the sand lies
\* in the cell right above the highest non-replaceable block below it,
\* every cell from there up to the place of the root is AIR, and the
\* blocks below are as they were.
C21_GravityLanding ==
    (/\ lastCall = "run_until_quiet"
     /\ runRet >= 0
     /\ frontier(graph) = << >>
     /\ Cardinality(Pending(graph0)) = 1)
    => \A id \in Pending(graph0) :
         LET ev == graph0[id].event
             ground == GroundY(world0, ev.pos)
         IN (ev \in SandDrops /\ TopOfAirRun(world0, ev.pos)) =>
              /\ get_block(world, SandCell(ground + 1)) = SAND
              /\ \A y \in ground + 2 .. MaxY + 2 : get_block(world, SandCell(y)) = AIR
              /\ \A y \in 0 .. ground :
                    get_block(world, SandCell(y)) = get_block(world0, SandCell(y))
              /\ Pending(graph) = {}

\* Sand dropped from the top came to rest on sand that had settled before.
C21_Witness ==
    /\ lastCall = "run_until_quiet"
    /\ frontier(graph) = << >>
    /\ Cardinality(Pending(graph0)) = 1
    /\ \A id \in Pending(graph0) :
          /\ graph0[id].event = BlockSet(SandCell(MaxY + 1), AIR, SAND)
          /\ TopOfAirRun(world0, SandCell(MaxY + 1))
          /\ GroundY(world0, SandCell(MaxY + 1)) = 1
    /\ get_block(world0, SandCell(1)) = SAND
    /\ get_block(world, SandCell(2)) = SAND

Abs(n) == IF n < 0 THEN -n ELSE n

\* The distance of a cell of the floor from the source, in steps along x
\* and z.
FlatDist(p) == Abs(p[1] - FlatSource[1]) + Abs(p[3] - FlatSource[3])

\* The kind of the source the caller placed.
PlacedKind == IF graph[1].event.new = WATER THEN "water" ELSE "lava"

\* C22: no BlockSet in the graph carries a level above the maximum of its
\* kind and no cell farther from the source than that maximum ever holds
\* fluid; at quiescence the source cell holds the source, every cell within
\* the maximum distance holds the fluid at the level of its distance (so
\* the cells along each axis do), and the cells beyond hold none.
C22_SpreadBounded ==
    /\ \A id \in Ids(graph) :
          graph[id].event.kind = "BlockSet" =>
             /\ water_level(graph[id].event.new) <= WaterMaxSpread
             /\ lava_level(graph[id].event.new) <= LavaMaxSpread
    /\ graph # GraphNew =>
          \A p \in FlatCells :
             FlatDist(p) > FluidMax(PlacedKind) => ~is_fluid(get_block(world, p))
    /\ (lastCall = "run_until_quiet" /\ runRet >= 0 /\ frontier(graph) = << >>) =>
          /\ get_block(world, FlatSource) = FluidAt(PlacedKind, 0)
          /\ \A p \in FlatCells :
                FlatDist(p) <= FluidMax(PlacedKind) =>
                   get_block(world, p) = FluidAt(PlacedKind, FlatDist(p))

\* Water has come to rest: level 7 seven cells from the source along x,
\* nothing in the eighth.
C22_Witness ==
    /\ lastCall = "run_until_quiet"
    /\ frontier(graph) = << >>
    /\ PlacedKind = "water"
    /\ get_block(world, Pos(15, 1, 8)) = water_at_level(WaterMaxSpread)
    /\ get_block(world, Pos(16, 1, 8)) = AIR

\* The events the caller inserted that have been executed.
CallerDone ==
    {graph[callerIds[i]].event : i \in {k \in 1 .. Len(callerIds) : graph[callerIds[k]].executed}}

\* The caller broke a source.
Broken == \E e \in CallerDone : e.kind = "BlockSet" /\ e.old \in {WATER, LAVA} /\ e.new = AIR

\* The caller walled a source in.
Walled == \E e \in CallerDone : e.kind = "BlockSet" /\ e.new = STONE

\* The cells of either room.
FluidCells == RoomCells \cup PillarCells

\* The cells of w that hold flowing fluid.
Flowing(w) ==
    {p \in FluidCells : water_level(get_block(w, p)) > 0 \/ lava_level(get_block(w, p)) > 0}

\* C23: once the run that follows the loss of every source (the source
\* broken, or the four cells beside it walled up, and the six neighbours
\* of each changed cell notified) has reached quiescence, no cell holds
\* flowing fluid; a source that was walled in is still in place, and a
\* source that was broken is AIR.
C23_DrainageCascade ==
    (/\ Broken \/ Walled
     /\ Idle
     /\ lastCall = "run_until_quiet"
     /\ frontier(graph) = << >>)
    => /\ Flowing(world) = {}
       /\ Walled =>
             /\ Sources(world) = Sources(world0)
             /\ \A p \in Sources(world) : get_block(world, p) = get_block(world0, p)
       /\ Broken => \A p \in FluidCells : get_block(world, p) # WATER

\* The graph in hand notifies the source, as if a neighbour had changed.
Notifying == graph # GraphNew /\ graph[1].event.kind = "BlockNotify"

\* A source cell changes only when a BlockSet the caller inserted for that
\* cell is executed.
SourceKept ==
    \A p \in RoomCells :
       (get_block(world, p) \in {WATER, LAVA} /\ get_block(world', p) # get_block(world, p))
       => \E i \in 1 .. Len(callerIds) :
             /\ ~graph[callerIds[i]].executed
             /\ graph'[callerIds[i]].executed
             /\ graph[callerIds[i]].event.kind = "BlockSet"
             /\ graph[callerIds[i]].event.pos = p

\* After the run that follows a BlockNotify at the source, or the walling
\* in of the source, the source is in place.
SourceStays ==
    (/\ lastCall = "run_until_quiet"
     /\ runRet >= 0
     /\ Notifying \/ Walled)
    => /\ Sources(world0) # {}
       /\ \A p \in Sources(world0) : get_block(world, p) = get_block(world0, p)

\* C24: no step of the scheduler turns a source block into anything else
\* unless it executes a BlockSet the caller inserted for that cell, and a
\* source that was sent a BlockNotify, with fluid beside it or walled in
\* with none, is in place at quiescence.
C24_SourcesNeverDrain == [][SourceKept]_vars /\ []SourceStays

\* A walled-in water source, no fluid beside it, was notified and stays.
C24_Witness ==
    /\ lastCall = "run_until_quiet"
    /\ frontier(graph) = << >>
    /\ Walled
    /\ get_block(world, Pos(3, 1, 3)) = WATER
    /\ \A i \in 1 .. 4 : get_block(world, horizontal_neighbors(Pos(3, 1, 3))[i]) = STONE
    /\ \E id \in Ids(graph) :
          graph[id].event = BlockNotify(Pos(3, 1, 3)) /\ graph[id].executed

\* ------------------------------------------------------------------------
\* step_parallel: the serial gather
\* ------------------------------------------------------------------------
\* The ids of the wave step_parallel took from the frontier.
WaveIds == Range(Take(front0, max_events_per_step))

\* While the tasks run, no node of the wave is marked and no node has been
\* added; once the gather has begun, every event of the wave has been
\* applied and evaluated: its result is spliced or waits to be.
GatherAfterScatter ==
    /\ pc = "scatter" =>
          /\ executed_count(graph) = count0
          /\ frontier(graph) = front0
          /\ \A id \in WaveIds : ~graph[id].executed
    /\ pc = "gather" =>
          /\ Range(log) \cup {gatherQ[k].id : k \in 1 .. Len(gatherQ)} = WaveIds
          /\ {graph[id].event.pos : id \in {i \in WaveIds : graph[i].event.kind = "BlockSet"}}
                = {wr[2] : wr \in writes}
          /\ \A id \in WaveIds : graph[id].executed <=> id \in Range(log)

\* A step of step_parallel leaves the graph alone unless it is an
\* iteration of the gather, which marks the id of the next result and
\* inserts its consequents as the children of that id; the gather does
\* not write the world.
GatherSplices ==
    /\ pc = "scatter" => graph' = graph
    /\ pc = "gather" => world' = world
    /\ (pc = "gather" /\ graph' # graph) =>
          /\ gatherQ # << >>
          /\ LET r == Head(gatherQ)
                 n == Len(graph)
             IN /\ ~graph[r.id].executed
                /\ graph'[r.id].executed
                /\ \A id \in Ids(graph) \ {r.id} : graph'[id] = graph[id]
                /\ Len(graph') = n + Len(r.consequents)
                /\ graph'[r.id].children =
                      graph[r.id].children \o [k \in 1 .. Len(r.consequents) |-> n + k]
                /\ \A k \in 1 .. Len(r.consequents) :
                      /\ graph'[n + k].event = r.consequents[k]
                      /\ graph'[n + k].parents = <<r.id>>
                      /\ ~graph'[n + k].executed

\* C25: in step_parallel every world write and rule evaluation of the wave
\* is done before any node of the wave is marked executed or any
\* consequent inserted; the graph does not change during the parallel
\* phase, and changes only in the serial gather, which marks each id and
\* inserts its collected consequents as its children.
C25_SerialGather == [][GatherSplices]_vars /\ []GatherAfterScatter

\* The gather is half done: the first result of a wave of two is spliced,
\* with a consequent, and the second waits.
C25_Witness ==
    /\ pc = "gather"
    /\ Len(log) = 1
    /\ Len(gatherQ) = 1
    /\ graph[log[1]].executed
    /\ graph[log[1]].children # << >>
    /\ ~graph[gatherQ[1].id].executed
    /\ gatherQ[1].consequents # << >>

\* ------------------------------------------------------------------------
\* What the rules emit for the event the sequential step has just executed
\* ------------------------------------------------------------------------
\* The step has executed an event and holds the world the rules were
\* evaluated in.
JustExecuted == pc = "step" /\ log # << >>

LastId == log[Len(log)]

LastEvent == graph[LastId].event

\* The events inserted as the children of node id.
Kids(id) == [k \in 1 .. Len(graph[id].children) |-> graph[graph[id].children[k]].event]

\* The block at the event position has the gravity flag and the block
\* below is AIR or a fluid.
CanFall(w, pos) ==
    /\ has_gravity(get_block(w, pos))
    /\ get_block(w, Below(pos)) = AIR \/ is_fluid(get_block(w, Below(pos)))

\* Two BlockSets that swap the block at pos and the block below it.
Swap(w, pos) ==
    {BlockSet(pos, get_block(w, pos), get_block(w, Below(pos))),
     BlockSet(Below(pos), get_block(w, Below(pos)), get_block(w, pos))}

\* The gravity rule emits the swap and notifies the cell above pos and the
\* cell `noted`, where it can fall; nothing otherwise.
GravityEmits(noted) ==
    JustExecuted =>
       LET pos == LastEvent.pos
           out == gravity(world, LastEvent)
       IN /\ Kids(LastId) = out \o fluid_spread(world, LastEvent)
          /\ IF CanFall(world, pos)
             THEN /\ Len(out) = 4
                  /\ Range(out) =
                        Swap(world, pos) \cup {BlockNotify(Above(pos)), BlockNotify(noted)}
             ELSE out = << >>

FluidOut == fluid_spread(world, LastEvent)

\* The cell of the last event holds water and the cell below it is AIR.
WaterOverAir ==
    /\ JustExecuted
    /\ water_level(get_block(world, LastEvent.pos)) >= 0
    /\ get_block(world, Below(LastEvent.pos)) = AIR

\* A single BlockSet that places water of level 1 in the cell below, and
\* nothing beside it.
FallsOnly ==
    /\ Len(FluidOut) = 1
    /\ FluidOut[1].kind = "BlockSet"
    /\ FluidOut[1].pos = Below(LastEvent.pos)
    /\ FluidOut[1].old = AIR
    /\ FluidOut[1].new = WATER + 1
    /\ Kids(LastId) = FluidOut

\* The cell is replaced with AIR and its four horizontal neighbours are
\* notified.
Drains ==
    LET pos == LastEvent.pos
    IN /\ Len(FluidOut) = 5
       /\ FluidOut[1] = BlockSet(pos, get_block(world, pos), AIR)
       /\ {FluidOut[k] : k \in 2 .. 5} =
             {BlockNotify(horizontal_neighbors(pos)[i]) : i \in 1 .. 4}

\* Support as the fluid rule is specified: water directly above, or water
\* of a strictly lower level in a horizontal neighbour.
SameKindSupport(w, pos) ==
    \/ water_level(get_block(w, Above(pos))) >= 0
    \/ \E i \in 1 .. 4 :
          /\ water_level(get_block(w, horizontal_neighbors(pos)[i])) >= 0
          /\ water_level(get_block(w, horizontal_neighbors(pos)[i]))
                < water_level(get_block(w, pos))

\* The last event is a BlockNotify at a cell of flowing water.
NotifiedFlowing ==
    /\ JustExecuted
    /\ LastEvent.kind = "BlockNotify"
    /\ water_level(get_block(world, LastEvent.pos)) >= 1

C28_SupportCondition == NotifiedFlowing => (Drains <=> ~SameKindSupport(world, LastEvent.pos))

\* C29: for a BlockSet that replaces water by a block that is not water,
\* the rule emits a BlockNotify for each of the six face neighbours.
C29_RemovalNotifies ==
    (/\ JustExecuted
     /\ LastEvent.kind = "BlockSet"
     /\ water_level(LastEvent.old) >= 0
     /\ water_level(LastEvent.new) < 0)
    => \A i \in 1 .. 6 : BlockNotify(pos_neighbors(LastEvent.pos)[i]) \in Range(FluidOut)

\* C30: the run that follows the removal of the source on top of the
\* pillar, once the water has fallen down the sides and spread on the
\* ground, ends within its step bound with an empty frontier and leaves no
\* fluid in the room.
C30_DrainTerminates ==
    (/\ Idle
     /\ lastCall = "run_until_quiet"
     /\ runMax = DrainSteps
     /\ get_block(world0, PillarTop) = WATER
     /\ get_block(world0, Pos(1, 1, 1)) = WATER + 2
     /\ get_block(world0, LavaCell) = AIR
     /\ BlockSet(PillarTop, WATER, AIR) \in CallerDone)
    => /\ frontier(graph) = << >>
       /\ Pending(graph) = {}
       /\ \A p \in PillarCells : ~is_fluid(get_block(world, p))

\* ------------------------------------------------------------------
\* Redundant notifies
\* ------------------------------------------------------------------

\* The BlockNotify events of the wave about to be executed.
FrontNotifies ==
    {id \in Range(frontier(graph)) : graph[id].event.kind = "BlockNotify"}

\* The graph after the caller inserted a second copy of node id: the same
\* event under the same parents.
WithDuplicate(id) == insert(graph, graph[id].event, graph[id].parents)

Without(f, id) == SelectSeq(f, LAMBDA x : x # id)

\* The orders of the current wave that differ from the natural one only in
\* the place of the notify id: it is evaluated before every sibling, or after
\* every sibling has written.
Displaced(id) ==
    {<<id>> \o Without(frontier(graph), id),
     Append(Without(frontier(graph), id), id)}

\* The cascade run to its end, the wave at hand executed in the given order
\* and the later waves in their natural order.
Settled(g, order) ==
    LET r == WaveLoop(world, g, order, 0, << >>)
    IN  run_until_quiet(r.world, r.graph, DefaultMaxEvents, DrainSteps)

SameOutcome(a, b) ==
    (frontier(a.graph) = << >> /\ frontier(b.graph) = << >>) =>
        \A p \in FluidCells \cup Cells : get_block(a.world, p) = get_block(b.world, p)

\* C31: a duplicate of a pending BlockNotify (same position, same parents),
\* or a BlockNotify evaluated at another place of its wave and so against a
\* neighbourhood its siblings have not yet written or have already written,
\* leaves the world at quiescence as it is without the change.
C31_RedundantNotifies ==
    Idle =>
        \A id \in FrontNotifies :
            /\ SameOutcome(Settled(graph, frontier(graph)),
                           Settled(WithDuplicate(id), frontier(WithDuplicate(id))))
            /\ \A order \in Displaced(id) :
                   SameOutcome(Settled(graph, frontier(graph)), Settled(graph, order))

\* ------------------------------------------------------------------
\* Frame of event application
\* ------------------------------------------------------------------

\* The transition applies event e: an iteration of the loop of step, or a
\* task of step_parallel applying its next event.
SeqApplies == pc = "step" /\ log' # log

ParApplies(i) ==
    pc = "scatter" /\ pc' = "scatter" /\ taskPhase[i] = "apply" /\ taskPhase'[i] = "eval"

\* The world after differs from the world before in the block at pos, which
\* is now `new`, and in the dirty mark and the presence of the chunk of pos.
WritesOnlyAt(pos, new) ==
    /\ get_block(world', pos) = new
    /\ \A p \in Cells \ {pos} : get_block(world', p) = get_block(world, p)
    /\ world'.dirty = world.dirty \cup {ChunkOf(pos)}
    /\ DOMAIN world'.chunks = DOMAIN world.chunks \cup {ChunkOf(pos)}
    /\ \A cp \in DOMAIN world.chunks \ {ChunkOf(pos)} : world'.chunks[cp] = world.chunks[cp]

EventFrame(e) ==
    IF e.kind = "BlockSet" THEN WritesOnlyAt(e.pos, e.new) ELSE world' = world

SchedulerFrame ==
    (pc # "idle" \/ pc' # "idle") =>
        IF SeqApplies THEN EventFrame(graph[Head(front)].event)
        ELSE IF \E i \in 1 .. Len(groups) : ParApplies(i)
        THEN \A i \in 1 .. Len(groups) : ParApplies(i) => EventFrame(TaskEvent(i))
        ELSE world' = world

\* C32: executing a BlockSet leaves `new` at pos, whatever was there, and
\* changes no other block; executing a BlockNotify changes neither a block
\* nor the dirty set; no other transition of step or step_parallel changes
\* the world.
C32_ApplyFrame == [][SchedulerFrame]_vars

\* A BlockSet with old = AIR has just been executed at a cell where an
\* earlier event had put sand: its `new` is there now.
C32_Witness ==
    /\ JustExecuted
    /\ LastEvent.kind = "BlockSet"
    /\ LastEvent.old = AIR
    /\ is_fluid(LastEvent.new)
    /\ get_block(world, LastEvent.pos) = LastEvent.new
    /\ \E id \in Ids(graph) :
         /\ id < LastId
         /\ graph[id].executed
         /\ graph[id].event = BlockSet(LastEvent.pos, AIR, SAND)

\* ------------------------------------------------------------------
\* Position decomposition
\* ------------------------------------------------------------------

\* The multiple of 2^36 in the y of a position.
YHigh(pos) == IF Len(pos) = 4 THEN pos[4] ELSE 0

\* The storage cell of a position: the chunk key, the section key and the
\* index into the section array.
StorageCell(pos) ==
    << ChunkOf(pos), section_index(LocalOf(pos)),
       SectionIndex(LocalOf(pos)[1], section_local_y(LocalOf(pos)), LocalOf(pos)[3]) >>

Recomposes(pos) ==
    /\ LocalOf(pos)[1] \in 0 .. SECTION_SIZE - 1
    /\ LocalOf(pos)[3] \in 0 .. SECTION_SIZE - 1
    /\ section_local_y(LocalOf(pos)) \in 0 .. SECTION_SIZE - 1
    /\ pos[1] = SECTION_SIZE * ChunkOf(pos)[1] + LocalOf(pos)[1]
    /\ pos[3] = SECTION_SIZE * ChunkOf(pos)[2] + LocalOf(pos)[3]
    /\ pos[2] = SECTION_SIZE * section_index(LocalOf(pos)) + section_local_y(LocalOf(pos))
    /\ YHigh(pos) = 0

SamePosition(p, q) ==
    p[1] = q[1] /\ p[2] = q[2] /\ p[3] = q[3] /\ YHigh(p) = YHigh(q)

\* C33: the position set_block was just called with is recomposed from its
\* chunk coordinates, local coordinates, section index and section-local y,
\* the local parts lie in [0,16), and no other position written so far has
\* the same storage cell.
C33_Decomposition ==
    calls.last = "set_block" =>
        /\ Recomposes(calls.arg[1])
        /\ \A q \in DOMAIN calls.written :
             StorageCell(q) = StorageCell(calls.arg[1]) => SamePosition(q, calls.arg[1])

\* ------------------------------------------------------------------------
\* Player registry (server/src/player_registry.rs) and the play phase of a
\* connection (server/src/net/connection.rs, handle_play)
\* ------------------------------------------------------------------------
netFrame == << world, graph, max_events_per_step, callerIds, pc, schedLocals,
               runLocals, schedHistory, conc, rules, calls >>

Joined(c) == [kind |-> "Joined", conn_id |-> c]

Left(c) == [kind |-> "Left", conn_id |-> c]

\* PlayerRegistry::register: insert, then broadcast Joined.
register(n, c) ==
    [n EXCEPT !.players = @ \cup {c}, !.events = Append(@, Joined(c))]

\* PlayerRegistry::deregister: remove; broadcast Left if the player was there.
deregister(n, c) ==
    IF c \in n.players
    THEN [n EXCEPT !.players = @ \ {c}, !.events = Append(@, Left(c))]
    ELSE n

\* `?` on a failed write_packet or send_chunk_from_world: handle_play returns
\* the error from where it stands.
ReturnErr(n, c) == [n EXCEPT !.conn[c] = "returned", !.result[c] = "err"]

\* `break` out of the main loop: the cleanup after the loop, then Ok(()).
BreakLoop(n, c) ==
    [deregister(n, c) EXCEPT !.conn[c] = "returned", !.result[c] = "ok"]

\* handle_play up to the main loop: login and chunk packets, subscribe, the
\* existing players sent to the newcomer, register.  Any of the writes on
\* the way can fail.
PlaySetup(c, ok) ==
    /\ net.conn[c] = "config"
    /\ net' = IF ok
              THEN [register(net, c) EXCEPT !.conn[c] = "play",
                                            !.registered[c] = TRUE,
                                            !.rx[c] = Len(net.events) + 1]
              ELSE ReturnErr(net, c)
    /\ UNCHANGED netFrame

\* keepalive_timer.tick(): one write.
KeepAlive(c, ok) ==
    /\ net.conn[c] = "play"
    /\ net' = IF ok THEN net ELSE ReturnErr(net, c)
    /\ UNCHANGED netFrame

\* read_packet: a packet whose handler writes to the client (block update,
\* ack, chunk data), a parse error that is ignored, or any other read error.
ReadPacket(c, outcome) ==
    /\ net.conn[c] = "play"
    /\ net' = CASE outcome = "handled" -> net
                [] outcome = "write_failed" -> ReturnErr(net, c)
                [] outcome = "parse_error" -> net
                [] outcome = "read_failed" -> BreakLoop(net, c)
    /\ UNCHANGED netFrame

\* player_rx.recv(): the next PlayerEvent; the connection's own events are
\* skipped, the others are written to the client.
RecvPlayerEvent(c, ok) ==
    /\ net.conn[c] = "play"
    /\ net.rx[c] <= Len(net.events)
    /\ net' = IF net.events[net.rx[c]].conn_id = c \/ ok
              THEN [net EXCEPT !.rx[c] = @ + 1]
              ELSE ReturnErr([net EXCEPT !.rx[c] = @ + 1], c)
    /\ UNCHANGED netFrame

\* bus_rx.recv() or player_rx.recv() answers Closed.
BusClosed(c) ==
    /\ net.conn[c] = "play"
    /\ net' = BreakLoop(net, c)
    /\ UNCHANGED netFrame

ReadOutcomes == {"handled", "write_failed", "parse_error", "read_failed"}

NextPlayers ==
    \/ \E c \in Conns : \E ok \in BOOLEAN : PlaySetup(c, ok)
    \/ \E c \in Conns : \E ok \in BOOLEAN : KeepAlive(c, ok)
    \/ \E c \in Conns : \E o \in ReadOutcomes : ReadPacket(c, o)
    \/ \E c \in Conns : \E ok \in BOOLEAN : RecvPlayerEvent(c, ok)
    \/ \E c \in Conns : BusClosed(c)

SpecPlayers == InitWith({WorldNew}, {DefaultMaxEvents}) /\ [][NextPlayers]_vars

\* C34: a connection whose handler has returned is not in the registry, and
\* if it had registered itself a PlayerEvent::Left with its conn_id was
\* broadcast.
C34_DeregisteredOnExit ==
    \A c \in Conns :
        net.conn[c] = "returned" =>
            /\ c \notin net.players
            /\ net.registered[c] => \E i \in 1 .. Len(net.events) : net.events[i] = Left(c)

\* ------------------------------------------------------------------------
\* Dynamic chunk loading (connection.rs: update_loaded_chunks and the drain
\* at the top of the main loop of handle_play)
\* ------------------------------------------------------------------------
KeyBefore(p, q) == p[1] < q[1] \/ (p[1] = q[1] /\ p[2] < q[2])

Ascending(S) ==
    [i \in 1 .. Cardinality(S) |->
        CHOOSE p \in S : Cardinality({q \in S : KeyBefore(q, p)}) = i - 1]

\* The orders in which a HashSet difference is iterated: two of them.
IterOrders == {"ascending", "descending"}

Iterate(S, order) ==
    IF order = "ascending" THEN Ascending(S) ELSE Reverse(Ascending(S))

\* to_load.sort_by_key(Chebyshev distance): a stable sort.
SortByDistance(seq, c) ==
    LET at(d) == SelectSeq(seq, LAMBDA p : Chebyshev(p, c) = d)
        RECURSIVE upto(_)
        upto(d) == IF d < 0 THEN << >> ELSE upto(d - 1) \o at(d)
    IN upto(view_distance)

\* update_loaded_chunks with every write succeeding.
update_loaded_chunks(st, new_c, order) ==
    IF new_c = st.center THEN st
    ELSE
    LET desired == Square(new_c, view_distance)
        to_unload == st.loaded_chunks \ desired
        kept == st.loaded_chunks \ to_unload
        retained == SelectSeq(st.chunk_send_queue, LAMBDA p : p \in desired)
        to_load == SortByDistance(Iterate(desired \ kept, order), new_c)
        immediate == SelectSeq(to_load, LAMBDA p : Chebyshev(p, new_c) <= IMMEDIATE_RADIUS)
        deferred == SelectSeq(to_load, LAMBDA p : Chebyshev(p, new_c) > IMMEDIATE_RADIUS)
        sent == (st.client \ to_unload) \cup Range(immediate)
    IN [st EXCEPT !.center = new_c,
                  !.loaded_chunks = kept \cup Range(immediate) \cup Range(deferred),
                  !.chunk_send_queue = retained \o deferred,
                  !.client = sent,
                  !.centered = TRUE,
                  !.had = sent]

RECURSIVE DrainQueue(_, _)
\* while sent < CHUNKS_PER_ITER { pop_front; skip if not loaded; send }
DrainQueue(st, sent) ==
    IF sent >= CHUNKS_PER_ITER \/ st.chunk_send_queue = << >> THEN st
    ELSE LET p == Head(st.chunk_send_queue)
             rest == [st EXCEPT !.chunk_send_queue = Tail(@)]
         IN IF p \notin st.loaded_chunks THEN DrainQueue(rest, sent)
            ELSE DrainQueue([rest EXCEPT !.client = @ \cup {p}], sent + 1)

Returned(st) == [st EXCEPT !.at = "returned"]

\* The top of the loop.
DrainChunks(ok) ==
    /\ net.stream.at = "drain"
    /\ net' = [net EXCEPT !.stream =
                 IF ok \/ net.stream.chunk_send_queue = << >>
                 THEN [DrainQueue(net.stream, 0) EXCEPT !.at = "select"]
                 ELSE Returned(net.stream)]
    /\ UNCHANGED netFrame

\* select!: the ready(()) branch, taken only while chunks are queued.
SelectYield ==
    /\ net.stream.at = "select"
    /\ net.stream.chunk_send_queue # << >>
    /\ net' = [net EXCEPT !.stream.at = "drain"]
    /\ UNCHANGED netFrame

\* select!: a MovePlayerPos / MovePlayerPosRot packet was read.
SelectMove(new_c, order, ok) ==
    /\ net.stream.at = "select"
    /\ net' = [net EXCEPT !.stream =
                 IF ok \/ new_c = net.stream.center
                 THEN [update_loaded_chunks(net.stream, new_c, order) EXCEPT !.at = "drain"]
                 ELSE Returned(net.stream)]
    /\ UNCHANGED netFrame

\* select!: the read fails and the loop is left.
SelectBreak ==
    /\ net.stream.at = "select"
    /\ net' = [net EXCEPT !.stream = Returned(net.stream)]
    /\ UNCHANGED netFrame

\* The player crosses into a neighbouring chunk column or stays.
MoveTargets ==
    {<<cx, 0>> : cx \in {x \in 0 .. MaxChunk :
                           x - net.stream.center[1] \in {-1, 0, 1}}}

NextChunks ==
    \/ \E ok \in BOOLEAN : DrainChunks(ok)
    \/ SelectYield
    \/ \E c \in MoveTargets : \E o \in IterOrders : \E ok \in BOOLEAN : SelectMove(c, o, ok)
    \/ SelectBreak

SpecChunks == InitWith({WorldNew}, {DefaultMaxEvents}) /\ [][NextChunks]_vars

\* C35: when update_loaded_chunks has sent SetChunkCacheCenter, the client had
\* by then been sent every chunk within Chebyshev distance 2 of that centre.
C35_InnerRingFirst ==
    net.stream.centered => Square(net.stream.center, IMMEDIATE_RADIUS) \subseteq net.stream.had

\* ------------------------------------------------------------------------
\* Change replay (server/src/event_bus.rs)
\* ------------------------------------------------------------------------
\* nodes.keys(): a slot map nothing is removed from yields its keys in
\* insertion order.
all_ids(g) == [i \in 1 .. Len(g) |-> i]

\* Variant: every BlockSet of the graph, executed or not.
collect_block_sets(g) ==
    LET ids == SelectSeq(all_ids(g), LAMBDA id : g[id].event.kind = "BlockSet")
    IN [i \in 1 .. Len(ids) |-> <<g[ids[i]].event.pos, g[ids[i]].event.new>>]

collect_block_changes(g) ==
    LET ids == SelectSeq(all_ids(g),
                         LAMBDA id : id \in Ids(g) /\ g[id].executed
                                        /\ g[id].event.kind = "BlockSet")
    IN [i \in 1 .. Len(ids) |-> <<g[ids[i]].event.pos, g[ids[i]].event.new>>]

\* The step executes an event: the list collected from the graph after it is
\* the list collected before it, with the event's (pos, new) appended if it
\* is a BlockSet.
ChangesFollowExecution ==
    (pc = "step" /\ log' # log) =>
        collect_block_changes(graph') =
            IF graph[Head(front)].event.kind = "BlockSet"
            THEN Append(collect_block_changes(graph),
                        <<graph[Head(front)].event.pos, graph[Head(front)].event.new>>)
            ELSE collect_block_changes(graph)

RECURSIVE Replay(_, _)
\* for (pos, new) in changes { copy.set_block(pos, new) }
Replay(w, changes) ==
    IF changes = << >> THEN w
    ELSE Replay(set_block(w, Head(changes)[1], Head(changes)[2]), Tail(changes))

\* run_until_quiet has returned from a cascade on a graph that had nothing
\* executed when it began.
CascadeReturned ==
    Idle /\ lastCall = "run_until_quiet" /\ runRet >= 0 /\ executed_count(graph0) = 0

ReplayReproduces ==
    CascadeReturned =>
        \A p \in Cells \cup FluidCells :
            get_block(Replay(world0, collect_block_changes(graph)), p) = get_block(world, p)

\* C36: collect_block_changes lists the executed BlockSet events in the order
\* the sequential scheduler executed them, each once and no unexecuted one;
\* replaying the list on the world the cascade began from gives the block
\* the cascade left at every position.
C36_ChangeReplay == [][ChangesFollowExecution]_vars /\ []ReplayReproduces

\* A cascade that began with a removal and its six notifies has returned:
\* three or more changes, notifies executed among them, pending BlockSets
\* absent or not, and a world that differs from the one it began from.
C36_Witness ==
    /\ CascadeReturned
    /\ Len(collect_block_changes(graph)) >= 3
    /\ \E id \in Ids(graph) : graph[id].executed /\ graph[id].event.kind = "BlockNotify"
    /\ \E p \in FluidCells : get_block(world, p) # get_block(world0, p)

\* ------------------------------------------------------------------
\* Scheduler-built edges
\* ------------------------------------------------------------------

\* The nodes the scheduler inserted: those whose id was not returned to the
\* caller.
SchedulerIds(g) == Ids(g) \ Range(callerIds)

\* The event the transition takes the consequents of.
Evaluated == IF pc = "step" THEN Head(front) ELSE Head(gatherQ).id

\* A transition of step or step_parallel that makes the graph longer: each
\* new node has the evaluated event as its one parent and is listed among its
\* children, and that parent is marked executed and has been applied (the
\* sequential step has just written it, the parallel wave was written before
\* its gather began).
EdgeBuilt ==
    (pc \in {"step", "gather"} /\ Len(graph') > Len(graph)) =>
        /\ graph'[Evaluated].executed
        /\ \A id \in Len(graph) + 1 .. Len(graph') :
             /\ graph'[id].parents = <<Evaluated>>
             /\ \E k \in 1 .. Len(graph'[Evaluated].children) :
                    graph'[Evaluated].children[k] = id
             /\ ~graph'[id].executed
        /\ graph[Evaluated].event.kind = "BlockSet" =>
             IF pc = "step"
             THEN get_block(world', graph[Evaluated].event.pos) = graph[Evaluated].event.new
             ELSE \E wr \in writes : wr[2] = graph[Evaluated].event.pos

\* Every scheduler-inserted node has one parent, an older node that is
\* executed; a node with several parents was inserted by the caller.
CascadeForest ==
    /\ \A id \in SchedulerIds(graph) :
         /\ Len(graph[id].parents) = 1
         /\ graph[id].parents[1] \in 1 .. id - 1
         /\ graph[graph[id].parents[1]].executed
    /\ \A id \in Ids(graph) : Len(graph[id].parents) > 1 => id \in Range(callerIds)

\* C37: a node inserted by step or step_parallel has exactly one parent, the
\* event whose evaluation produced it, applied and marked executed by then;
\* the scheduler-grown part of a graph is a forest and nodes with several
\* parents are the caller's.
C37_SchedulerEdges == [][EdgeBuilt]_vars /\ []CascadeForest

\* The graph holds a node the caller gave two parents and a node the
\* scheduler inserted under an executed event.
C37_Witness ==
    /\ \E id \in Range(callerIds) : Len(graph[id].parents) = 2
    /\ SchedulerIds(graph) # {}

\* ------------------------------------------------------------------
\* Back-pressure
\* ------------------------------------------------------------------

\* The values of max_events_per_step that cut a wave short.
Budgets == {1, 2, 3}

Unexecuted(g) == {id \in Ids(g) : ~g[id].executed}

\* run_until_quiet from the state at hand with the given bound on a step.
RunWith(budget) == run_until_quiet(world, graph, budget, DrainSteps)

\* The bounded run inserts the same nodes in the same order, marks the same
\* nodes, and leaves the same world as the unbounded run.
SameCascade(a, b) == a.graph = b.graph /\ a.world = b.world /\ a.total = b.total

\* Every pending node that is not on the frontier is younger than every
\* node of the frontier and waits only for nodes of the frontier (or for a
\* parent that is not in the graph): roots, then children of roots.
Layered(g) ==
    \A n \in Unexecuted(g) \ Range(frontier(g)) :
        /\ \A m \in Range(frontier(g)) : m < n
        /\ \A i \in 1 .. Len(g[n].parents) :
              g[n].parents[i] \in Ids(g) =>
                  (g[g[n].parents[i]].executed \/ g[n].parents[i] \in Range(frontier(g)))

CutOffStays ==
    (pc = "idle" /\ lastCall = "step" /\ ret >= 0) =>
        \A i \in 1 .. Len(front0) :
            front0[i] \notin Range(log) => front0[i] \in Range(frontier(graph))

SandCount(w) == Cardinality({p \in Cells : get_block(w, p) = SAND})

\* The executed events of the caller that put sand where there was none.
SandPlaced(g) ==
    Cardinality({id \in Range(callerIds) :
                    /\ g[id].executed
                    /\ g[id].event.kind = "BlockSet"
                    /\ g[id].event.new = SAND
                    /\ g[id].event.old # SAND})

\* C39: when a cascade of the sequential scheduler is at quiescence the world
\* holds as many SAND blocks as it held before the caller's roots plus one
\* for each root that placed sand.
C39_SandConserved ==
    (Idle /\ lastCall = "run_until_quiet" /\ Pending(graph) = {}) =>
        SandCount(world) = SandCount(PitWorld) + SandPlaced(graph)


\* ------------------------------------------------------------------
\* At-most-once execution
\* ------------------------------------------------------------------

\* step, step_parallel, run_until_quiet and run_until_quiet_parallel called
\* in any order on a graph the caller adds roots to.
NextCalls ==
    \/ \E e \in RootEvents : ~Injected(e) /\ InsertRoot(e)
    \/ StepBegin
    \/ StepIter
    \/ StepEnd
    \/ ParBegin
    \/ \E i \in 1 .. Len(groups) : ParApply(i)
    \/ \E i \in 1 .. Len(groups) : ParEval(i)
    \/ ParJoin
    \/ ParGatherIter
    \/ ParEnd
    \/ \E ms \in {1, MaxSteps} : RunBegin("seq", ms)
    \/ \E ms \in {1, MaxSteps} : RunBegin("par", ms)

SpecCalls == Init /\ [][NextCalls]_vars

NoRepeats(seq) == \A i, j \in 1 .. Len(seq) : seq[i] = seq[j] => i = j

\* The ids a call in progress still has in hand.
InHand ==
    IF pc = "step" THEN front
    ELSE IF pc = "scatter" THEN Flatten(groups)
    ELSE IF pc = "gather" THEN [i \in 1 .. Len(gatherQ) |-> gatherQ[i].id]
    ELSE << >>

\* No node is twice in one wave, none of a wave's nodes was executed before
\* the wave, and a call executes no node twice.
WaveOnce ==
    /\ NoRepeats(InHand)
    /\ NoRepeats(log)
    /\ \A id \in Range(InHand) : id \in Ids(graph) /\ ~graph[id].executed
    /\ \A id \in Range(log) : graph[id].executed

ParEvaluates(i) == pc = "scatter" /\ i \in DOMAIN results /\ pc' = "scatter"
                   /\ results'[i] # results[i]

\* Whatever is applied or evaluated was not marked executed, and the mark is
\* never taken back.
AppliesFresh ==
    /\ SeqApplies =>
         ~graph[Head(front)].executed /\ graph'[Head(front)].executed
    /\ \A i \in 1 .. Len(groups) :
         (ParApplies(i) \/ ParEvaluates(i)) => ~graph[groups[i][taskIdx[i]]].executed
    /\ (pc = "gather" /\ log' # log) =>
         ~graph[Head(gatherQ).id].executed /\ graph'[Head(gatherQ).id].executed
    /\ \A id \in Ids(graph) :
         graph[id].executed => id \in Ids(graph') /\ graph'[id].executed

\* C40: across any sequence of step, step_parallel, run_until_quiet and
\* run_until_quiet_parallel calls each node is applied and evaluated at most
\* once: only nodes not marked executed are applied or evaluated, the mark
\* is set by the call that applied the node and never cleared, and no node
\* is twice in one wave.
C40_AtMostOnce == [][AppliesFresh]_vars /\ []WaveOnce

\* A later call executes nodes of a graph in which earlier calls, sequential
\* and parallel, have executed others.
C40_Witness ==
    /\ pc \in {"step", "gather"}
    /\ log # << >>
    /\ count0 > 0
    /\ runKind # "none"

====
